---- MODULE Spec2Model ----
(***************************************************************************)
(* NSEStockTracker: the candle store (database.py), the market calendar    *)
(* and tracked symbol list (data_fetcher.py, config.py) and the collection *)
(* scheduler (scheduler.py).                                               *)
(*                                                                         *)
(* Time.  A datetime is a record [day, minute]: day counts calendar days,  *)
(* minute the minutes since midnight.  A TEXT timestamp column holds       *)
(* datetime.isoformat(); ISO strings of one format compare as the instants *)
(* do, so the column is modelled by the integer day * 1440 + minute and    *)
(* SQLite's DATE(timestamp) by the quotient.                               *)
(*                                                                         *)
(* Threads.  Every save_candle call opens its own connection and runs      *)
(* three statements (two SELECTs in autocommit, one INSERT OR IGNORE that  *)
(* is committed); statements of different connections interleave, one      *)
(* statement is atomic.  A save_candle or a cleanup_old_data that raises   *)
(* is part of FaultSpec and FailureSpec only.                              *)
(*                                                                         *)
(* Scheduler.  start(), stop() and set_market_hours_only() run on the      *)
(* control thread (main); every start() that is not a no-op creates a      *)
(* worker thread that polls the process-wide job list of the schedule      *)
(* library; collect_now runs on a thread of its own.  A collection is a    *)
(* gate step, one step per fetched symbol, the statements of each          *)
(* save_candle, and the closing statements for the statistics.  An         *)
(* attribute += 1 is two steps, the read and the write of the sum.  The    *)
(* clock is sampled at a few instants of a Friday and the Saturday after.  *)
(*                                                                         *)
(* StoreSpec is the store alone under concurrent writers and a purge,      *)
(* ReadSpec the same with get_latest_candle and get_candles_for_symbol.    *)
(* Spec is the scheduler over the store, FairSpec the same under the       *)
(* scheduling a polling worker and a join with a timeout can count on,     *)
(* CleanupSpec the scheduler over a store that holds rows of a month       *)
(* before.  RaceSpec is a started scheduler beside a thread that calls     *)
(* force_immediate_collection, FaultSpec a scheduler and a collect_now     *)
(* whose save_candle may raise, FailureSpec a scheduler whose jobs may     *)
(* fail, under fair scheduling of the workers.  SymbolSpec is the tracked  *)
(* symbol list under add_symbol and remove_symbol, CollectSpec a           *)
(* collect_now while the list is edited, BackfillSpec a backfill beside a  *)
(* collect_now, CalendarSpec the market calendar queried through a week.   *)
(***************************************************************************)
EXTENDS Integers, Sequences, FiniteSets, TLC

\* ---------------------------------------------------------------- bounds
\* candle instants 0..MaxInstant, SlotsPerDay of them on each day
MaxInstant == 2
\* save_candle calls and cleanup_old_data calls of one run
MaxSaves == 2
MaxPurges == 1

\* collections of one run: timer jobs taken up, manual collections begun
MaxCycles == 1
\* the clock is sampled at the instants 0..MaxClock
MaxClock == 4

SlotsPerDay == 2
MinutesPerDay == 1440
\* data_fetcher.py DATA_INTERVAL '5m': candles are five minutes apart
CandleMinutes == 5
\* config.py MARKET_OPEN_TIME = time(9, 15), in minutes since midnight
MARKET_OPEN_TIME == 555
\* config.py MARKET_CLOSE_TIME = time(15, 30)
MARKET_CLOSE_TIME == 930
\* config.py TRADING_DAYS, Monday to Friday
TRADING_DAYS == 0..4
\* config.py FETCH_INTERVAL_MINUTES
FETCH_INTERVAL_MINUTES == 5
\* config.py KEEP_DATA_DAYS
KEEP_DATA_DAYS == 30
\* scheduler.py schedule.every().day.at("06:00"), in minutes since midnight
CLEANUP_TIME == 360

\* the instants the clock is sampled at: 06:00, 10:00 and 16:00 of each day
ClockMinutes == << 360, 600, 960 >>
ClockInstants ==
  { [day |-> i \div Len(ClockMinutes), minute |-> ClockMinutes[(i % Len(ClockMinutes)) + 1]] :
    i \in 0..MaxClock }

\* the instants of the candles the source returns: 09:15, 09:20, .. of each day
Instants ==
  { [day |-> i \div SlotsPerDay,
     minute |-> MARKET_OPEN_TIME + CandleMinutes * (i % SlotsPerDay)] : i \in 0..MaxInstant }

\* The instruments the candle source knows.
SymbolUniverse == {"TCS.NS", "INFY.NS"}

\* The threads: the background workers start() creates (a second one while a
\* first outlives its stop()), and the threads the control surface spawns
\* for collect_now and for backfill.
Workers == {"worker1", "worker2"}
Manual == {"collect", "backfill"}
Threads == Workers \cup Manual

None == [none |-> TRUE]

\* ------------------------------------------------------------- candles
\* OHLCV payloads the candle source may return (models.py StockCandle): a
\* rising, a falling and a flat candle, and a falling one of under 1000 shares.
Shapes ==
  { [open_price |-> 10, high_price |-> 12, low_price |-> 10, close_price |-> 12,
     volume |-> 250000, created_at |-> 1],
    [open_price |-> 12, high_price |-> 12, low_price |-> 9, close_price |-> 9,
     volume |-> 250999, created_at |-> 2],
    [open_price |-> 11, high_price |-> 11, low_price |-> 11, close_price |-> 11,
     volume |-> 100000, created_at |-> 1],
    [open_price |-> 12, high_price |-> 12, low_price |-> 10, close_price |-> 10,
     volume |-> 999, created_at |-> 2] }

StockCandle(sym, dt, sh) ==
  [symbol |-> sym, timestamp |-> dt,
   open_price |-> sh.open_price, high_price |-> sh.high_price,
   low_price |-> sh.low_price, close_price |-> sh.close_price,
   volume |-> sh.volume, created_at |-> sh.created_at]

\* the candles save_candle is called with: every payload of one symbol, the
\* rising payload of the others
Candles ==
  { c \in { StockCandle(sym, dt, sh) : sym \in SymbolUniverse, dt \in Instants, sh \in Shapes } :
      c.symbol = "TCS.NS" \/ c.volume = 250000 }

\* datetime.isoformat() as stored in a TEXT column, and SQLite DATE() of it.
isoformat(dt) == dt.day * MinutesPerDay + dt.minute
DATE(ts) == ts \div MinutesPerDay
\* datetime.date()
date(dt) == dt.day

\* the cutoffs cleanup_old_data may compute (now - days_to_keep): each candle
\* instant and the instant after the last
Cutoffs == { isoformat(dt) : dt \in Instants } \cup { (MaxInstant \div SlotsPerDay + 1) * MinutesPerDay }

VARIABLES
  db,        \* table stock_candles: a set of rows
  frame,     \* per thread: the save_candle call it is executing
  ret,       \* the operation that returned last, with what it returned
  calls,     \* save_candle calls so far
  purges,    \* cleanup_old_data calls so far
  \* DataScheduler and the threads around it
  is_running, market_hours_only, fetch_count, error_count, last_fetch_time,
  scheduler_thread,  \* the worker start() created last, or None
  symbols,   \* fetcher.symbols, the tracked symbol list
  jobs,      \* schedule.jobs of the process-wide default scheduler
  task,      \* per thread: where it is in the handler it runs
  main,      \* the control thread: "idle", or "joining" inside stop()
  lifecycle, \* the last of start() and stop() that was called
  cycles,    \* collection jobs taken up and manual collections begun so far
  now        \* the wall clock

storeVars == << db, frame, ret >>
schedVars == << is_running, market_hours_only, fetch_count, error_count, last_fetch_time,
                scheduler_thread, symbols, jobs, task, main, lifecycle, cycles, now >>
vars == << db, frame, ret, calls, purges, is_running, market_hours_only, fetch_count,
           error_count, last_fetch_time, scheduler_thread, symbols, jobs, task, main,
           lifecycle, cycles, now >>

\* ------------------------------------------------- save_candle arithmetic
\* int(candle.volume / 1000)
ScaledVolume(candle) == candle.volume \div 1000

\* int(round((high + low) / 2, 2)): a sum of two integers halves to x.0 or
\* x.5, which round(.., 2) keeps and int() truncates.
AvgPrice(candle) == (candle.high_price + candle.low_price) \div 2

\* int(round(avg_price * vol / 1000, 2)): the quotient has three decimals;
\* round(.., 2) carries into the units only from x.995 upwards, int()
\* truncates the rest.
MoneyFlow(avg_price, vol) ==
  LET n == avg_price * vol
  IN  IF n % 1000 >= 995 THEN (n \div 1000) + 1 ELSE n \div 1000

\* DayRows with the DATE(timestamp) = ? condition dropped
DayRows_AnyDate(rows, sym, day) ==
  { r \in rows : r.symbol = sym }

\* rows of one symbol and date: WHERE symbol = ? AND DATE(timestamp) = ?
DayRows(rows, sym, day) ==
  { r \in rows : r.symbol = sym /\ DATE(r.timestamp) = day }

\* SELECT COUNT(*) ... WHERE symbol = ? AND DATE(timestamp) = ?
DayEntryCount(rows, candle) ==
  Cardinality(DayRows(rows, candle.symbol, date(candle.timestamp)))

\* SELECT avg_price, net_mf ... ORDER BY timestamp DESC LIMIT 1
PreviousRow(rows, candle) ==
  LET same == DayRows(rows, candle.symbol, date(candle.timestamp))
  IN  IF same = {} THEN None
      ELSE LET r == CHOOSE x \in same : \A y \in same : y.timestamp <= x.timestamp
           IN  [avg_price |-> r.avg_price, net_mf |-> r.net_mf]

\* FirstOfDayNetMF with close <= open taken as a falling day
FirstOfDayNetMF_FlatFalls(candle, money_flow) ==
  IF candle.close_price <= candle.open_price THEN 0 - money_flow ELSE money_flow

\* first entry of the day: close against open
FirstOfDayNetMF(candle, money_flow) ==
  IF candle.close_price < candle.open_price THEN 0 - money_flow ELSE money_flow

\* NextNetMF adding the money flow also when the average price fell
NextNetMF_AlwaysAdds(avg_price, money_flow, result) ==
  IF avg_price > result.avg_price THEN money_flow + result.net_mf
  ELSE IF avg_price < result.avg_price THEN money_flow + result.net_mf
  ELSE IF result.net_mf >= 0 THEN money_flow + result.net_mf
  ELSE (0 - money_flow) + result.net_mf

\* NextNetMF with a previous net_mf of zero counted as negative on a tie
NextNetMF_ZeroNegative(avg_price, money_flow, result) ==
  IF avg_price > result.avg_price THEN money_flow + result.net_mf
  ELSE IF avg_price < result.avg_price THEN (0 - money_flow) + result.net_mf
  ELSE IF result.net_mf > 0 THEN money_flow + result.net_mf
  ELSE (0 - money_flow) + result.net_mf

\* later entries: avg_price against the previous avg_price, a tie takes the
\* sign of the previous net_mf
NextNetMF(avg_price, money_flow, result) ==
  IF avg_price > result.avg_price THEN money_flow + result.net_mf
  ELSE IF avg_price < result.avg_price THEN (0 - money_flow) + result.net_mf
  ELSE IF result.net_mf >= 0 THEN money_flow + result.net_mf
  ELSE (0 - money_flow) + result.net_mf

\* _calculate_net_mf once both SELECTs have answered
CalculateNetMF(candle, avg_price, money_flow, day_entry_count, result) ==
  IF day_entry_count = 0 THEN FirstOfDayNetMF(candle, money_flow)
  ELSE IF result # None THEN NextNetMF(avg_price, money_flow, result)
  ELSE money_flow

\* the row INSERT OR IGNORE writes
Row(candle, net_mf) ==
  [symbol |-> candle.symbol, timestamp |-> isoformat(candle.timestamp),
   open_price |-> candle.open_price, high_price |-> candle.high_price,
   low_price |-> candle.low_price, close_price |-> candle.close_price,
   volume |-> ScaledVolume(candle), avg_price |-> AvgPrice(candle),
   money_flow |-> MoneyFlow(AvgPrice(candle), ScaledVolume(candle)),
   net_mf |-> net_mf, created_at |-> candle.created_at]

\* Conflicts without the UNIQUE(symbol, timestamp) constraint: only a row
\* equal in every column is ignored
Conflicts_WholeRow(rows, row) ==
  row \in rows

\* Conflicts with the constraint declared on the symbol alone
Conflicts_SymbolOnly(rows, row) ==
  \E r \in rows : r.symbol = row.symbol

\* UNIQUE(symbol, timestamp)
Conflicts(rows, row) ==
  \E r \in rows : r.symbol = row.symbol /\ r.timestamp = row.timestamp

\* ------------------------------------------------------------ save_candle
\* A thread outside save_candle.  rival: what a concurrent save_candle of the
\* same (symbol, timestamp) did while this call was running: "none", "false"
\* (it returned False), "stored" (it returned True and its row is stored),
\* "purged" (it returned True and its row was deleted since).
IdleFrame == [pc |-> "idle", candle |-> None, day_entry_count |-> 0,
              result |-> None, rival |-> "none"]

InFlight(t) == frame[t].pc \in {"prev", "insert"}

SameKey(c1, c2) == c1.symbol = c2.symbol /\ c1.timestamp = c2.timestamp

\* save_candle is entered and the first SELECT of _calculate_net_mf answers
\* (vol, avg_price and money_flow are locals computed before it)
SaveCount(t, candle) ==
  /\ frame[t].pc = "idle"
  /\ LET n == DayEntryCount(db, candle)
     IN  frame' = [frame EXCEPT ![t] = [IdleFrame EXCEPT
                      !.pc = IF n = 0 THEN "insert" ELSE "prev",
                      !.candle = candle, !.day_entry_count = n]]
  /\ UNCHANGED << db, ret >>

\* second SELECT of _calculate_net_mf
SavePrev(t) ==
  /\ frame[t].pc = "prev"
  /\ frame' = [frame EXCEPT ![t].result = PreviousRow(db, frame[t].candle),
                            ![t].pc = "insert"]
  /\ UNCHANGED << db, ret >>

\* the row save_candle hands to INSERT OR IGNORE
NewRow(f) ==
  LET avg == AvgPrice(f.candle)
      mf == MoneyFlow(avg, ScaledVolume(f.candle))
  IN  Row(f.candle, CalculateNetMF(f.candle, avg, mf, f.day_entry_count, f.result))

\* INSERT OR IGNORE, commit, return cursor.rowcount > 0
SaveInsert(t) ==
  /\ frame[t].pc = "insert"
  /\ LET row == NewRow(frame[t])
         success == ~Conflicts(db, row)
     IN  /\ db' = IF success THEN db \cup {row} ELSE db
         /\ ret' = [op |-> "save_candle", candle |-> frame[t].candle,
                    day_entry_count |-> frame[t].day_entry_count,
                    result |-> frame[t].result, rival |-> frame[t].rival,
                    success |-> success]
         /\ frame' = [u \in Threads |->
                        IF u = t THEN IdleFrame
                        ELSE IF InFlight(u) /\ SameKey(frame[u].candle, frame[t].candle)
                             THEN [frame[u] EXCEPT !.rival = IF success THEN "stored" ELSE "false"]
                             ELSE frame[u]]

\* a DELETE that takes the rows of the cutoff instant too
Expired_AtCutoff(r, cutoff) == r.timestamp <= cutoff

\* WHERE timestamp < ?
Expired(r, cutoff) == r.timestamp < cutoff

\* cleanup_old_data: DELETE ... WHERE timestamp < cutoff, returns rowcount
Purge(cutoff) ==
  /\ db' = { r \in db : ~Expired(r, cutoff) }
  /\ ret' = [op |-> "cleanup_old_data", cutoff |-> cutoff,
             deleted_count |-> Cardinality(db \ db')]
  /\ frame' = [u \in Threads |->
                 IF frame[u].rival = "stored" /\ isoformat(frame[u].candle.timestamp) < cutoff
                 THEN [frame[u] EXCEPT !.rival = "purged"]
                 ELSE frame[u]]

\* ------------------------------------------------------- market calendar
\* date.weekday(): 0 is Monday; day 0 of the clock is a Friday
weekday(dt) == (dt.day + 4) % 7

\* a close that ends the session one minute early
WithinMarketHours_ExclusiveClose(dt) == MARKET_OPEN_TIME <= dt.minute /\ dt.minute < MARKET_CLOSE_TIME

\* Config.MARKET_OPEN_TIME <= current_time <= Config.MARKET_CLOSE_TIME
WithinMarketHours(dt) == MARKET_OPEN_TIME <= dt.minute /\ dt.minute <= MARKET_CLOSE_TIME

\* a session that counts as over from the closing minute on
PastClose_FromClose(dt) == dt.minute >= MARKET_CLOSE_TIME

\* current_ist.time() > Config.MARKET_CLOSE_TIME
PastClose(dt) == dt.minute > MARKET_CLOSE_TIME

\* while next_date.weekday() not in Config.TRADING_DAYS: next_date += 1 day
RECURSIVE NextTradingDate(_)
NextTradingDate(d) ==
  IF weekday([day |-> d]) \in TRADING_DAYS THEN d ELSE NextTradingDate(d + 1)

\* _calculate_next_market_open
calculate_next_market_open(dt) ==
  LET next_date == IF PastClose(dt) THEN dt.day + 1 ELSE dt.day
  IN  [day |-> NextTradingDate(next_date), minute |-> MARKET_OPEN_TIME]

\* _calculate_next_market_close
calculate_next_market_close(dt) == [day |-> dt.day, minute |-> MARKET_CLOSE_TIME]

\* data_fetcher.py get_market_status
get_market_status(dt) ==
  LET is_trading_day == weekday(dt) \in TRADING_DAYS
      is_open == is_trading_day /\ WithinMarketHours(dt)
  IN  [is_open |-> is_open,
       is_trading_day |-> is_trading_day,
       current_time |-> dt,
       next_open |-> calculate_next_market_open(dt),
       next_close |-> IF is_open THEN calculate_next_market_close(dt) ELSE None]

\* ------------------------------------------------------------ candle source
\* the newest candle instant that is not after dt, if there is one
LatestInstants(dt) ==
  { x \in Instants : /\ isoformat(x) <= isoformat(dt)
                     /\ \A y \in Instants : isoformat(y) <= isoformat(dt) => isoformat(y) <= isoformat(x) }

\* the prices the provider reports for the latest candle
LiveShapes == { sh \in Shapes : sh.volume = 250999 }

\* FetchResult of fetch_latest_candle: the latest candle, or a failure (no
\* data returned, or an exception of the provider)
NoMessage == "None"

FetchLatest(sym, dt) ==
  { [success |-> FALSE, symbol |-> sym, data |-> None, error_message |-> "No data returned"] }
  \cup { [success |-> TRUE, symbol |-> sym, data |-> StockCandle(sym, x, sh),
          error_message |-> NoMessage] :
           x \in LatestInstants(dt), sh \in LiveShapes }

\* ------------------------------------------------------------ schedule jobs
\* a collection job that is due the moment it is registered
NextCollection_Immediately(dt) == isoformat(dt)

\* schedule.every(FETCH_INTERVAL_MINUTES).minutes: due one interval from dt
NextCollection(dt) == isoformat(dt) + FETCH_INTERVAL_MINUTES

\* schedule.every().day.at("06:00"): today's 06:00 if still ahead, else tomorrow's
NextCleanup(dt) ==
  IF dt.minute < CLEANUP_TIME THEN dt.day * MinutesPerDay + CLEANUP_TIME
  ELSE (dt.day + 1) * MinutesPerDay + CLEANUP_TIME

NextRun(fn, dt) == IF fn = "_collect_data" THEN NextCollection(dt) ELSE NextCleanup(dt)

\* the two jobs start() registers for the worker it creates
NewJobs(w, dt) ==
  { [fn |-> "_collect_data", owner |-> w, next_run |-> NextCollection(dt)],
    [fn |-> "_daily_cleanup", owner |-> w, next_run |-> NextCleanup(dt)] }

\* job.run() ends: the job object gets its next run; it shows in schedule.jobs
\* only if clear() has not dropped the job meanwhile
Rescheduled(js, job, dt) ==
  { IF j.fn = job.fn /\ j.owner = job.owner THEN [j EXCEPT !.next_run = NextRun(j.fn, dt)] ELSE j :
    j \in js }

\* sorted(job for job in self.jobs if job.should_run): by next_run, the
\* collection job before the cleanup job of the same instant
RECURSIVE SortedJobs(_)
SortedJobs(js) ==
  IF js = {} THEN << >>
  ELSE LET first == CHOOSE j \in js : \A k \in js :
                      \/ j.next_run < k.next_run
                      \/ (j.next_run = k.next_run /\ (j.fn = "_collect_data" \/ k.fn # "_collect_data")
                          /\ (j.fn # k.fn \/ j.owner = k.owner \/ j.owner = "worker1"))
       IN  << first >> \o SortedJobs(js \ {first})

Pending(dt) == SortedJobs({ j \in jobs : j.next_run <= isoformat(dt) })

\* ---------------------------------------------------------------- threads
\* self.scheduler_thread = None
NoThread == "none"
NoJob == [fn |-> "none", owner |-> "none", next_run |-> 0]
\* fn: the routine the thread runs; loaded: the value of the counter that
\* a += has read and not yet written back; counted: the += 1 of error_count
\* the collection the thread runs has completed; faulted: the results whose
\* save_candle ended in a caught exception
Task(pc) == [pc |-> pc, fn |-> "none", batch |-> << >>, job |-> NoJob, force |-> FALSE,
             results |-> << >>, i |-> 1, loaded |-> 0, counted |-> 0, faulted |-> {}]

Alive(w) == task[w].pc # "dead"

\* ------------------------------------------------------------ start, stop
\* a thread object for the worker start() creates
FreeWorker(w) == ~Alive(w) /\ \A u \in Workers : ~Alive(u) => (u = w \/ w = "worker1")

\* a start() that returns early once a worker has ever been created
StartIsNoop_OnceStarted == scheduler_thread # NoThread

\* a start() without its early return
StartIsNoop_Never == FALSE

\* the early return of start(): the scheduler is running already
StartIsNoop == is_running

\* start(market_hours_only): the warning "Scheduler is already running" and
\* nothing else while running; the flags, the two jobs and the worker
\* thread otherwise
Start(mho) ==
  /\ main = "idle"
  /\ lifecycle' = IF StartIsNoop THEN "already_running" ELSE "start"
  /\ IF StartIsNoop
     THEN UNCHANGED << is_running, market_hours_only, jobs, scheduler_thread, task >>
     ELSE \E w \in Workers :
            /\ FreeWorker(w)
            /\ market_hours_only' = mho
            /\ is_running' = TRUE
            /\ jobs' = jobs \cup NewJobs(w, now)
            /\ scheduler_thread' = w
            /\ task' = [task EXCEPT ![w] = Task("loop")]
  /\ UNCHANGED << db, frame, ret, calls, purges, fetch_count, error_count, last_fetch_time,
                  symbols, main, cycles, now >>

\* a clear() that leaves the jobs where they are
clear_Nothing(js) == js

\* schedule.clear(): every job of the process-wide list is dropped
clear(js) == {}

\* stop() up to the join: the flag is cleared and the jobs are dropped
StopBegin ==
  /\ main = "idle"
  /\ lifecycle' = "stop"
  /\ is_running' = FALSE
  /\ jobs' = clear(jobs)
  /\ main' = IF scheduler_thread # NoThread /\ Alive(scheduler_thread) THEN "joining" ELSE "idle"
  /\ UNCHANGED << db, frame, ret, calls, purges, market_hours_only, fetch_count, error_count,
                  last_fetch_time, scheduler_thread, symbols, task, cycles, now >>

\* a join that only a worker's exit ends
Busy_Never(w) == FALSE

\* the worker is inside a job (a fetch, an insert, the purge)
Busy(w) ==
  task[w].pc \in {"fetch", "save", "store_error", "store_except", "finish", "store_fetch", "reset"}

\* join(timeout=5) ends: the worker has exited, or it is inside a job that
\* outlasts the timeout (a worker that only polls exits within a second)
StopReturn ==
  /\ main = "joining"
  /\ ~Alive(scheduler_thread) \/ Busy(scheduler_thread)
  /\ main' = "idle"
  /\ UNCHANGED << db, frame, ret, calls, purges, is_running, market_hours_only, fetch_count,
                  error_count, last_fetch_time, scheduler_thread, symbols, jobs, task,
                  lifecycle, cycles, now >>

SetMarketHoursOnly(b) ==
  /\ main = "idle"
  /\ market_hours_only' = b
  /\ UNCHANGED << db, frame, ret, calls, purges, is_running, fetch_count, error_count,
                  last_fetch_time, scheduler_thread, symbols, jobs, task, main, lifecycle,
                  cycles, now >>

\* ------------------------------------------------------------ worker loop
\* the collection jobs of a batch
Collections(batch) == Cardinality({ k \in 1..Len(batch) : batch[k].fn = "_collect_data" })

\* a loop that never tests the flag
LoopTest_Always == TRUE

\* the test of `while self.is_running:`
LoopTest == is_running

\* while self.is_running: schedule.run_pending(); time.sleep(1); a batch is
\* taken up while the run has collections left for each of its collection
\* jobs
WorkerLoop(w) ==
  /\ task[w].pc = "loop"
  /\ IF ~LoopTest
     THEN task' = [task EXCEPT ![w] = Task("dead")] /\ UNCHANGED cycles
     ELSE /\ Pending(now) # << >>
          /\ cycles + Collections(Pending(now)) <= MaxCycles
          /\ cycles' = cycles + Collections(Pending(now))
          /\ task' = [task EXCEPT ![w].pc = "run", ![w].batch = Pending(now)]
  /\ UNCHANGED << db, frame, ret, calls, purges, is_running, market_hours_only, fetch_count,
                  error_count, last_fetch_time, scheduler_thread, symbols, jobs, main,
                  lifecycle, now >>

\* a job of the batch has returned: the next job of the batch, or, the batch
\* done, time.sleep(1) and the test of the flag
Resume(batch) == [Task(IF batch = << >> THEN "loop" ELSE "run") EXCEPT !.batch = batch]

\* --------------------------------------------- _collect_data, collect_now
\* a gate that looks at the weekday only
Skips_TradingDayOnly(force) ==
  ~force /\ market_hours_only /\ ~get_market_status(now).is_trading_day

\* no gate at all
Skips_Never(force) == FALSE

\* a gate that force does not open
Skips_ForceIgnored(force) ==
  market_hours_only /\ ~get_market_status(now).is_open

\* the market-hours gate of _collect_data (force = FALSE) and collect_now
Skips(force) ==
  ~force /\ market_hours_only /\ ~get_market_status(now).is_open

\* the thread is past the gate: fetch_all_symbols starts
Fetching(fn, force, job, batch) ==
  [pc |-> "fetch", fn |-> fn, batch |-> batch, job |-> job,
   force |-> force, results |-> << >>, i |-> 1, loaded |-> 0, counted |-> 0,
   faulted |-> {}]

\* run_pending calls the collection job: the gate of _collect_data
TimerCollect(w) ==
  /\ task[w].pc = "run"
  /\ Head(task[w].batch).fn = "_collect_data"
  /\ LET job == Head(task[w].batch)
         rest == Tail(task[w].batch)
     IN  IF Skips(FALSE)
         THEN /\ jobs' = Rescheduled(jobs, job, now)
              /\ task' = [task EXCEPT ![w] = Resume(rest)]
              /\ ret' = [op |-> "_collect_data", skipped |-> TRUE]
         ELSE /\ task' = [task EXCEPT ![w] = Fetching("_collect_data", FALSE, job, rest)]
              /\ UNCHANGED << jobs, ret >>
  /\ UNCHANGED << db, frame, calls, purges, is_running, market_hours_only, fetch_count,
                  error_count, last_fetch_time, scheduler_thread, symbols, main, lifecycle,
                  cycles, now >>

\* the control surface's thread calls collect_now(force): its gate
CollectNow(force) ==
  /\ task["collect"].pc = "idle"
  /\ IF Skips(force)
     THEN /\ ret' = [op |-> "collect_now", skipped |-> TRUE, results |-> << >>]
          /\ UNCHANGED << task, cycles >>
     ELSE /\ cycles < MaxCycles
          /\ cycles' = cycles + 1
          /\ task' = [task EXCEPT !["collect"] = Fetching("collect_now", force, NoJob, << >>)]
          /\ UNCHANGED ret
  /\ UNCHANGED << db, frame, calls, purges, is_running, market_hours_only, fetch_count,
                  error_count, last_fetch_time, scheduler_thread, symbols, jobs, main,
                  lifecycle, now >>

\* fetch_all_symbols: the list iterator of the loop over self.symbols yields
\* the element at its index and one fetch_latest_candle follows, or the
\* index is past the end of the list and the loop is over
FetchOne(t) ==
  /\ task[t].pc = "fetch"
  /\ IF task[t].i <= Len(symbols)
     THEN \E r \in FetchLatest(symbols[task[t].i], now) :
            task' = [task EXCEPT ![t].results = Append(@, r), ![t].i = @ + 1]
     ELSE task' = [task EXCEPT ![t].i = 1,
                               ![t].pc = IF task[t].results = << >> THEN "finish" ELSE "save"]
  /\ UNCHANGED << db, frame, ret, calls, purges, is_running, market_hours_only, fetch_count,
                  error_count, last_fetch_time, scheduler_thread, symbols, jobs, main,
                  lifecycle, cycles, now >>

\* the loop over results moves to the next result, or ends
Advance(tk) ==
  [tk EXCEPT !.i = @ + 1, !.pc = IF tk.i < Len(tk.results) THEN "save" ELSE "finish"]

Timer(t) == task[t].job # NoJob

\* the thread runs _collect_data: a timer job of a worker, or
\* force_immediate_collection on the caller's thread
Counts(t) == task[t].fn = "_collect_data"

\* a loop over results that counts no failed fetch
ErrorIncrement_None(t) == 0

\* the else branch of the loop over results: self.error_count += 1 in
\* _collect_data, nothing in collect_now
ErrorIncrement(t) == IF Counts(t) THEN 1 ELSE 0

\* for result in results: a failed fetch; self.error_count += 1 begins with
\* the read of the attribute
SaveFailed(t) ==
  /\ task[t].pc = "save"
  /\ ~task[t].results[task[t].i].success
  /\ task' = [task EXCEPT ![t] = IF ErrorIncrement(t) = 0 THEN Advance(task[t])
                                 ELSE [task[t] EXCEPT !.pc = "store_error",
                                                      !.loaded = error_count]]
  /\ UNCHANGED << db, frame, ret, calls, purges, is_running, market_hours_only, fetch_count,
                  error_count, last_fetch_time, scheduler_thread, symbols, jobs, main,
                  lifecycle, cycles, now >>

\* self.error_count += 1 ends: the sum is written to the attribute
StoreError(t) ==
  /\ task[t].pc = "store_error"
  /\ error_count' = task[t].loaded + ErrorIncrement(t)
  /\ task' = [task EXCEPT ![t] = [Advance(task[t]) EXCEPT !.counted = @ + 1]]
  /\ UNCHANGED << db, frame, ret, calls, purges, is_running, market_hours_only, fetch_count,
                  last_fetch_time, scheduler_thread, symbols, jobs, main, lifecycle, cycles, now >>

\* for result in results: save_candle(result.data) is entered
CycleSaveCount(t) ==
  /\ task[t].pc = "save"
  /\ task[t].results[task[t].i].success
  /\ SaveCount(t, task[t].results[task[t].i].data)
  /\ UNCHANGED << calls, purges >>
  /\ UNCHANGED schedVars

CycleSavePrev(t) ==
  /\ task[t].pc = "save"
  /\ SavePrev(t)
  /\ UNCHANGED << calls, purges >>
  /\ UNCHANGED schedVars

\* save_candle returns to the loop over results
CycleSaveInsert(t) ==
  /\ task[t].pc = "save"
  /\ SaveInsert(t)
  /\ task' = [task EXCEPT ![t] = Advance(task[t])]
  /\ UNCHANGED << calls, purges, is_running, market_hours_only, fetch_count, error_count,
                  last_fetch_time, scheduler_thread, symbols, jobs, main, lifecycle, cycles, now >>

\* the exceptions a save_candle may end in before its first statement: one
\* of the database (sqlite3.connect), one of the arithmetic on the candle
\* (int(round(nan)) of a price the provider left empty)
Kinds == {"sqlite3.Error", "ValueError"}

\* except sqlite3.Error in save_candle and in cleanup_old_data
Caught(kind) == kind = "sqlite3.Error"

\* an except Exception that lets everything but a database error pass
IsException_DatabaseOnly(kind) == kind = "sqlite3.Error"

\* except Exception in _collect_data, collect_now, _daily_cleanup and
\* _run_scheduler: both kinds are subclasses of Exception
IsException(kind) == kind \in {"sqlite3.Error", "ValueError"}

\* save_candle(result.data) raises.  What save_candle catches makes it
\* return False to the loop over results; anything else leaves the loop for
\* the except Exception of the collection: self.error_count += 1 (its read)
\* in _collect_data, return [] in collect_now.  What no except clause takes
\* ends the thread
CycleSaveRaises(t, kind) ==
  /\ task[t].pc = "save"
  /\ task[t].results[task[t].i].success
  /\ frame[t].pc = "idle"
  /\ IF Caught(kind)
     THEN /\ task' = [task EXCEPT ![t] = [Advance(task[t]) EXCEPT !.faulted = @ \cup {task[t].i}]]
          /\ ret' = [op |-> "save_candle", candle |-> task[t].results[task[t].i].data,
                     day_entry_count |-> 0, result |-> None, rival |-> "none",
                     success |-> FALSE]
     ELSE IF ~IsException(kind)
     THEN /\ task' = [task EXCEPT ![t] = Task(IF Timer(t) THEN "dead" ELSE "done")]
          /\ UNCHANGED ret
     ELSE IF Counts(t)
     THEN /\ task' = [task EXCEPT ![t].pc = "store_except", ![t].loaded = error_count]
          /\ UNCHANGED ret
     ELSE /\ task' = [task EXCEPT ![t] = Task("idle")]
          /\ ret' = [op |-> "collect_now", skipped |-> FALSE, results |-> << >>]
  /\ UNCHANGED << db, frame, calls, purges, is_running, market_hours_only, fetch_count,
                  error_count, last_fetch_time, scheduler_thread, symbols, jobs, main,
                  lifecycle, cycles, now >>

\* except Exception of _collect_data: self.error_count += 1 ends and the
\* routine returns
StoreExcept(t) ==
  /\ task[t].pc = "store_except"
  /\ error_count' = task[t].loaded + 1
  /\ IF Timer(t)
     THEN /\ jobs' = Rescheduled(jobs, task[t].job, now)
          /\ task' = [task EXCEPT ![t] = Resume(task[t].batch)]
     ELSE /\ task' = [task EXCEPT ![t] = Task("done")]
          /\ UNCHANGED jobs
  /\ ret' = [op |-> "_collect_data", skipped |-> FALSE]
  /\ UNCHANGED << db, frame, calls, purges, is_running, market_hours_only, fetch_count,
                  last_fetch_time, scheduler_thread, symbols, main, lifecycle, cycles, now >>

\* the end of _collect_data: self.last_fetch_time = datetime.now(), and
\* self.fetch_count += 1 begins with the read of the attribute
CollectDataFinish(t) ==
  /\ task[t].pc = "finish"
  /\ Counts(t)
  /\ last_fetch_time' = now
  /\ task' = [task EXCEPT ![t].pc = "store_fetch", ![t].loaded = fetch_count]
  /\ UNCHANGED << db, frame, ret, calls, purges, is_running, market_hours_only, fetch_count,
                  error_count, scheduler_thread, symbols, jobs, main, lifecycle, cycles, now >>

\* self.fetch_count += 1 ends: the sum is written; _collect_data returns, to
\* run_pending, which reschedules the job, or to the caller of
\* force_immediate_collection
StoreFetch(t) ==
  /\ task[t].pc = "store_fetch"
  /\ fetch_count' = task[t].loaded + 1
  /\ IF Timer(t)
     THEN /\ jobs' = Rescheduled(jobs, task[t].job, now)
          /\ task' = [task EXCEPT ![t] = Resume(task[t].batch)]
     ELSE /\ task' = [task EXCEPT ![t] = Task("done")]
          /\ UNCHANGED jobs
  /\ ret' = [op |-> "_collect_data", skipped |-> FALSE]
  /\ UNCHANGED << db, frame, calls, purges, is_running, market_hours_only, error_count,
                  last_fetch_time, scheduler_thread, symbols, main, lifecycle, cycles, now >>

\* force_immediate_collection on a thread of the caller: _collect_data, with
\* its gate
ForceImmediate ==
  /\ task["collect"].pc = "idle"
  /\ IF Skips(FALSE)
     THEN /\ ret' = [op |-> "_collect_data", skipped |-> TRUE]
          /\ UNCHANGED task
     ELSE /\ task' = [task EXCEPT !["collect"] = Fetching("_collect_data", FALSE, NoJob, << >>)]
          /\ UNCHANGED ret
  /\ UNCHANGED << db, frame, calls, purges, is_running, market_hours_only, fetch_count,
                  error_count, last_fetch_time, scheduler_thread, symbols, jobs, main,
                  lifecycle, cycles, now >>

\* the end of collect_now: last_fetch_time, and the results are returned
CollectNowFinish ==
  /\ task["collect"].pc = "finish"
  /\ ~Counts("collect")
  /\ last_fetch_time' = now
  /\ ret' = [op |-> "collect_now", skipped |-> FALSE, results |-> task["collect"].results]
  /\ task' = [task EXCEPT !["collect"] = Task("idle")]
  /\ UNCHANGED << db, frame, calls, purges, is_running, market_hours_only, fetch_count,
                  error_count, scheduler_thread, symbols, jobs, main, lifecycle, cycles, now >>

\* ---------------------------------------------------------- _daily_cleanup
\* a retention window of twice the configured days
CutoffDate_TwiceTheDays(dt) == isoformat(dt) - 2 * KEEP_DATA_DAYS * MinutesPerDay

\* datetime.now() - timedelta(days=KEEP_DATA_DAYS), as the DELETE compares it
CutoffDate(dt) == isoformat(dt) - KEEP_DATA_DAYS * MinutesPerDay

\* run_pending calls the cleanup job: cleanup_old_data()
TimerCleanup(w) ==
  /\ task[w].pc = "run"
  /\ Head(task[w].batch).fn = "_daily_cleanup"
  /\ Purge(CutoffDate(now))
  /\ task' = [task EXCEPT ![w].pc = "reset", ![w].job = Head(task[w].batch),
                          ![w].batch = Tail(task[w].batch)]
  /\ UNCHANGED << calls, purges, is_running, market_hours_only, fetch_count, error_count,
                  last_fetch_time, scheduler_thread, symbols, jobs, main, lifecycle, cycles, now >>

\* run_pending calls the cleanup job and cleanup_old_data raises.  What
\* cleanup_old_data catches makes it return 0 with the rows kept; anything
\* else is taken by the except Exception of _daily_cleanup, which logs and
\* returns before the reset of error_count, and the job is rescheduled.
\* What no except clause takes ends the thread
TimerCleanupRaises(w, kind) ==
  /\ task[w].pc = "run"
  /\ Head(task[w].batch).fn = "_daily_cleanup"
  /\ IF Caught(kind)
     THEN /\ ret' = [op |-> "cleanup_old_data", cutoff |-> CutoffDate(now), deleted_count |-> 0]
          /\ task' = [task EXCEPT ![w].pc = "reset", ![w].job = Head(task[w].batch),
                                  ![w].batch = Tail(task[w].batch)]
          /\ UNCHANGED jobs
     ELSE IF ~IsException(kind)
     THEN /\ task' = [task EXCEPT ![w] = Task("dead")]
          /\ UNCHANGED << ret, jobs >>
     ELSE /\ ret' = [op |-> "_daily_cleanup", raised |-> kind]
          /\ jobs' = Rescheduled(jobs, Head(task[w].batch), now)
          /\ task' = [task EXCEPT ![w] = Resume(Tail(task[w].batch))]
  /\ UNCHANGED << db, frame, calls, purges, is_running, market_hours_only, fetch_count,
                  error_count, last_fetch_time, scheduler_thread, symbols, main, lifecycle,
                  cycles, now >>

\* self.error_count = 0, and the job is rescheduled
TimerCleanupReset(w) ==
  /\ task[w].pc = "reset"
  /\ error_count' = 0
  /\ jobs' = Rescheduled(jobs, task[w].job, now)
  /\ task' = [task EXCEPT ![w] = Resume(task[w].batch)]
  /\ UNCHANGED << db, frame, ret, calls, purges, is_running, market_hours_only, fetch_count,
                  last_fetch_time, scheduler_thread, symbols, main, lifecycle, cycles, now >>

\* ------------------------------------------------- tracked symbol list
\* what the control surface may pass as a symbol: a default symbol as it is
\* listed, one in lower case, one in lower case between blanks, and one that
\* is not in the default list, in upper and in lower case
Entered == {"TCS.NS", "tcs.ns", " infy.ns ", "WIPRO.NS", "wipro.ns"}

\* str.upper() and str.strip() on these strings
upper(str) ==
  CASE str = "tcs.ns" -> "TCS.NS"
    [] str = "infy.ns" -> "INFY.NS"
    [] str = " infy.ns " -> " INFY.NS "
    [] str = "wipro.ns" -> "WIPRO.NS"
    [] OTHER -> str

strip(str) ==
  CASE str = " infy.ns " -> "infy.ns"
    [] str = " INFY.NS " -> "INFY.NS"
    [] OTHER -> str

\* x in list
Contains(list, x) == \E k \in 1..Len(list) : list[k] = x

\* a remove that drops the last element of the list
Remove_Last(list, x) == SubSeq(list, 1, Len(list) - 1)

\* list.remove(x): the first occurrence goes, the rest keeps its order
Remove(list, x) ==
  LET k == CHOOSE n \in 1..Len(list) : list[n] = x /\ \A m \in 1..(n - 1) : list[m] # x
  IN  SubSeq(list, 1, k - 1) \o SubSeq(list, k + 1, Len(list))

\* Config.add_stock_symbol and Config.remove_stock_symbol; fetcher.symbols is
\* the list object Config.STOCK_SYMBOLS
\* a Config.add_stock_symbol that appends without looking at the list
add_stock_symbol_Always(list, symbol) == Append(list, upper(symbol))

add_stock_symbol(list, symbol) ==
  IF ~Contains(list, upper(symbol)) THEN Append(list, upper(symbol)) ELSE list

remove_stock_symbol(list, symbol) ==
  IF Contains(list, upper(symbol)) THEN Remove(list, upper(symbol)) ELSE list

\* Config.STOCK_SYMBOLS: StockDataFetcher() takes the list object itself
\* (symbols or Config.STOCK_SYMBOLS), so both names denote one list
STOCK_SYMBOLS == symbols

\* an add_symbol that asks the source first, whatever the list holds
AlreadyTracked_Never(symbol) == FALSE

\* the early return of add_symbol: the symbol is in the list
AlreadyTracked(symbol) == Contains(symbols, symbol)

\* add_symbol(entered); validate_symbol answers valid
add_symbol(entered, valid) ==
  LET symbol == strip(upper(entered))
  IN  /\ main = "idle"
      /\ IF AlreadyTracked(symbol)
         THEN /\ ret' = [op |-> "add_symbol", entered |-> entered, validated |-> FALSE,
                         result |-> TRUE]
              /\ UNCHANGED symbols
         ELSE /\ symbols' = IF valid THEN add_stock_symbol(Append(symbols, symbol), symbol)
                            ELSE symbols
              /\ ret' = [op |-> "add_symbol", entered |-> entered, validated |-> TRUE,
                         result |-> valid]
      /\ UNCHANGED << db, frame, calls, purges, is_running, market_hours_only, fetch_count,
                      error_count, last_fetch_time, scheduler_thread, jobs, task, main,
                      lifecycle, cycles, now >>

\* remove_symbol(entered)
remove_symbol(entered) ==
  LET symbol == strip(upper(entered))
  IN  /\ main = "idle"
      /\ IF Contains(symbols, symbol)
         THEN /\ symbols' = remove_stock_symbol(Remove(symbols, symbol), symbol)
              /\ ret' = [op |-> "remove_symbol", entered |-> entered, result |-> TRUE]
         ELSE /\ ret' = [op |-> "remove_symbol", entered |-> entered, result |-> FALSE]
              /\ UNCHANGED symbols
      /\ UNCHANGED << db, frame, calls, purges, is_running, market_hours_only, fetch_count,
                      error_count, last_fetch_time, scheduler_thread, jobs, task, main,
                      lifecycle, cycles, now >>

\* ----------------------------------------------------------- backfill_data
\* ticker.history(period, interval="5m") at dt: the candle instants of the
\* latest candle's day for period "1d", every instant so far for the longer
\* periods
HistoryInstants(days, dt) ==
  { x \in Instants : /\ isoformat(x) <= isoformat(dt)
                     /\ days <= 1 => \E y \in LatestInstants(dt) : x.day = y.day }

\* data.iterrows(): the candles in the order of their timestamps
RECURSIVE CandleList(_, _, _)
CandleList(sym, instants, sh) ==
  IF instants = {} THEN << >>
  ELSE LET first == CHOOSE x \in instants : \A y \in instants : isoformat(x) <= isoformat(y)
       IN  << StockCandle(sym, first, sh) >> \o CandleList(sym, instants \ {first}, sh)

\* the prices the provider reports for past candles
HistoryShapes == { sh \in Shapes : sh.volume = 250000 }

\* fetch_historical_data: the candles of the period, or [] (no data, or an
\* exception of the provider)
fetch_historical_data(sym, days, dt) ==
  { << >> } \cup { CandleList(sym, HistoryInstants(days, dt), sh) : sh \in HistoryShapes }

\* the days arguments: the default, and one of the longer periods
BackfillDays == {1, 5}

\* a backfill that the market-hours gate of the collections stops
BackfillGate_MarketHours == ~Skips(FALSE)

\* backfill_data has no gate
BackfillGate == TRUE

\* the control surface's thread calls backfill_data(symbol, days); before:
\* the rows stored when the call begins
backfill_data(sym, days) ==
  /\ task["backfill"].pc = "idle"
  /\ BackfillGate
  /\ \E candles \in fetch_historical_data(sym, days, now) :
       task' = [task EXCEPT !["backfill"] =
                  [pc |-> IF candles = << >> THEN "return" ELSE "backfill", symbol |-> sym,
                   candles |-> candles, i |-> 1, saved_count |-> 0, before |-> db]]
  /\ UNCHANGED << db, frame, ret, calls, purges, is_running, market_hours_only, fetch_count,
                  error_count, last_fetch_time, scheduler_thread, symbols, jobs, main,
                  lifecycle, cycles, now >>

\* for candle in candles: save_candle(candle) is entered
BackfillSaveCount ==
  /\ task["backfill"].pc = "backfill"
  /\ SaveCount("backfill", task["backfill"].candles[task["backfill"].i])
  /\ UNCHANGED << calls, purges >>
  /\ UNCHANGED schedVars

BackfillSavePrev ==
  /\ task["backfill"].pc = "backfill"
  /\ SavePrev("backfill")
  /\ UNCHANGED << calls, purges >>
  /\ UNCHANGED schedVars

\* a backfill that counts every candle it passes to save_candle
Saved_Always(success) == 1

\* if self.database.save_candle(candle): saved_count += 1
Saved_Count(success) == IF success THEN 1 ELSE 0

\* save_candle returns to the loop over candles
BackfillSaveInsert ==
  /\ task["backfill"].pc = "backfill"
  /\ SaveInsert("backfill")
  /\ LET tk == task["backfill"]
     IN  task' = [task EXCEPT !["backfill"] =
                    [tk EXCEPT !.i = @ + 1,
                               !.saved_count = @ + Saved_Count(ret'.success),
                               !.pc = IF tk.i < Len(tk.candles) THEN "backfill" ELSE "return"]]
  /\ UNCHANGED << calls, purges, is_running, market_hours_only, fetch_count, error_count,
                  last_fetch_time, scheduler_thread, symbols, jobs, main, lifecycle, cycles, now >>

\* return saved_count; the thread ends
BackfillReturn ==
  /\ task["backfill"].pc = "return"
  /\ ret' = [op |-> "backfill_data", symbol |-> task["backfill"].symbol,
             candles |-> task["backfill"].candles, before |-> task["backfill"].before,
             saved_count |-> task["backfill"].saved_count]
  /\ task' = [task EXCEPT !["backfill"] = Task("done")]
  /\ UNCHANGED << db, frame, calls, purges, is_running, market_hours_only, fetch_count,
                  error_count, last_fetch_time, scheduler_thread, symbols, jobs, main,
                  lifecycle, cycles, now >>

\* ------------------------------------------------------------------ clock
Tick ==
  /\ \E dt \in ClockInstants : isoformat(dt) > isoformat(now) /\ now' = dt
  /\ UNCHANGED << db, frame, ret, calls, purges, is_running, market_hours_only, fetch_count,
                  error_count, last_fetch_time, scheduler_thread, symbols, jobs, task, main,
                  lifecycle, cycles >>

\* --------------------------------------------------------- specifications
\* the database file an earlier run of the same morning has left: the first
\* candle of day 0 of one symbol
EarlierRun ==
  LET candle == StockCandle("TCS.NS", [day |-> 0, minute |-> MARKET_OPEN_TIME],
                            CHOOSE sh \in Shapes : sh.volume = 250000)
      avg_price == AvgPrice(candle)
      money_flow == MoneyFlow(avg_price, ScaledVolume(candle))
  IN  { Row(candle, CalculateNetMF(candle, avg_price, money_flow, 0, None)) }

\* StockDatabase.__init__ and DataScheduler.__init__ on a database file
\* that holds rows
Construct(rows) ==
  /\ db = rows
  /\ frame = [t \in Threads |-> IdleFrame]
  /\ ret = [op |-> "none"]
  /\ calls = 0
  /\ purges = 0
  /\ is_running = FALSE
  /\ scheduler_thread = NoThread
  /\ last_fetch_time = None
  /\ fetch_count = 0
  /\ error_count = 0
  /\ market_hours_only = TRUE
  /\ symbols = << "TCS.NS", "INFY.NS" >>
  /\ jobs = {}
  /\ task = [t \in Threads |-> IF t \in Workers THEN Task("dead") ELSE Task("idle")]
  /\ main = "idle"
  /\ lifecycle = "none"
  /\ cycles = 0
  /\ now = [day |-> 0, minute |-> CLEANUP_TIME]

\* a new database file
StoreInit == Construct({})

\* the database file of an earlier run
Init == Construct(EarlierRun)

\* the store under two writer threads and a purging third
StoreSaveCount(t, c) ==
  /\ calls < MaxSaves
  /\ calls' = calls + 1
  /\ SaveCount(t, c)
  /\ UNCHANGED purges
  /\ UNCHANGED schedVars

StoreSavePrev(t) ==
  /\ SavePrev(t)
  /\ UNCHANGED << calls, purges >>
  /\ UNCHANGED schedVars

StoreSaveInsert(t) ==
  /\ SaveInsert(t)
  /\ UNCHANGED << calls, purges >>
  /\ UNCHANGED schedVars

StorePurge(cutoff) ==
  /\ purges < MaxPurges
  /\ purges' = purges + 1
  /\ Purge(cutoff)
  /\ UNCHANGED calls
  /\ UNCHANGED schedVars

StoreNext ==
  \/ \E t \in Manual, c \in Candles : StoreSaveCount(t, c)
  \/ \E t \in Manual : StoreSavePrev(t)
  \/ \E t \in Manual : StoreSaveInsert(t)
  \/ \E cutoff \in Cutoffs : StorePurge(cutoff)

StoreSpec == StoreInit /\ [][StoreNext]_vars

\* ------------------------------------------------------ reading the store
\* models.py StockCandle: the fields the dataclass declares
StockCandleFields ==
  {"symbol", "timestamp", "open_price", "high_price", "low_price", "close_price",
   "volume", "created_at"}

\* what a call leaves behind when an exception leaves it
TypeError == [raised |-> "TypeError"]

\* StockCandle(**kwargs): the generated __init__ takes the declared fields
\* and raises TypeError on any other keyword
StockCandle_init(kwargs) ==
  IF DOMAIN kwargs \subseteq StockCandleFields THEN kwargs ELSE TypeError

\* datetime.fromisoformat of a stored timestamp
fromisoformat(text) ==
  [day |-> text \div MinutesPerDay, minute |-> text % MinutesPerDay]

\* the keywords get_latest_candle and get_candles_for_symbol build a
\* StockCandle from: the eleven columns of the SELECT
RowKeywords(row) ==
  [symbol |-> row.symbol, timestamp |-> fromisoformat(row.timestamp),
   open_price |-> row.open_price, high_price |-> row.high_price,
   low_price |-> row.low_price, close_price |-> row.close_price,
   volume |-> row.volume, avg_price |-> row.avg_price,
   money_flow |-> row.money_flow, net_mf |-> row.net_mf,
   created_at |-> row.created_at]

\* WHERE symbol = ?
RowsOf(rows, symbol) == { r \in rows : r.symbol = symbol }

\* ORDER BY timestamp DESC
RECURSIVE OrderByTimestampDesc(_)
OrderByTimestampDesc(rows) ==
  IF rows = {} THEN << >>
  ELSE LET first == CHOOSE r \in rows : \A q \in rows : q.timestamp <= r.timestamp
       IN  << first >> \o OrderByTimestampDesc(rows \ {first})

\* LIMIT n
Limit(seq, n) == SubSeq(seq, 1, IF n < Len(seq) THEN n ELSE Len(seq))

\* the limits get_candles_for_symbol is called with
Limits == {1, 2}

\* a list of StockCandle built row by row: the first constructor that
\* raises ends the call
Raises(seq) == \E k \in 1..Len(seq) : StockCandle_init(RowKeywords(seq[k])) = TypeError

\* get_latest_candle: the SELECT, then the StockCandle of its row or None;
\* only sqlite3.Error is caught
get_latest_candle(symbol) ==
  /\ LET fetched == Limit(OrderByTimestampDesc(RowsOf(db, symbol)), 1)
     IN  ret' = IF fetched = << >>
                THEN [op |-> "get_latest_candle", symbol |-> symbol, raised |-> "none",
                      value |-> None]
                ELSE IF Raises(fetched)
                THEN [op |-> "get_latest_candle", symbol |-> symbol, raised |-> "TypeError",
                      value |-> None]
                ELSE [op |-> "get_latest_candle", symbol |-> symbol, raised |-> "none",
                      value |-> StockCandle_init(RowKeywords(fetched[1]))]
  /\ UNCHANGED << db, frame, calls, purges >>
  /\ UNCHANGED schedVars

\* get_candles_for_symbol: the SELECT, then the list of the StockCandles of
\* its rows; only sqlite3.Error is caught
get_candles_for_symbol(symbol, limit) ==
  /\ LET fetched == Limit(OrderByTimestampDesc(RowsOf(db, symbol)), limit)
     IN  ret' = IF Raises(fetched)
                THEN [op |-> "get_candles_for_symbol", symbol |-> symbol, limit |-> limit,
                      raised |-> "TypeError", value |-> << >>]
                ELSE [op |-> "get_candles_for_symbol", symbol |-> symbol, limit |-> limit,
                      raised |-> "none",
                      value |-> [k \in 1..Len(fetched) |-> StockCandle_init(RowKeywords(fetched[k]))]]
  /\ UNCHANGED << db, frame, calls, purges >>
  /\ UNCHANGED schedVars

\* the store under its writers, its purge and its readers
ReadNext ==
  \/ StoreNext
  \/ \E symbol \in SymbolUniverse : get_latest_candle(symbol)
  \/ \E symbol \in SymbolUniverse, limit \in Limits : get_candles_for_symbol(symbol, limit)

ReadSpec == StoreInit /\ [][ReadNext]_vars

\* the scheduler with its worker threads, the control thread and a
\* collect_now thread
Next ==
  \/ \E mho \in BOOLEAN : Start(mho)
  \/ StopBegin
  \/ StopReturn
  \/ \E b \in BOOLEAN : SetMarketHoursOnly(b)
  \/ \E w \in Workers : WorkerLoop(w)
  \/ \E w \in Workers : TimerCollect(w)
  \/ \E force \in BOOLEAN : CollectNow(force)
  \/ \E t \in Threads : FetchOne(t)
  \/ \E t \in Threads : SaveFailed(t)
  \/ \E t \in Threads : StoreError(t)
  \/ \E t \in Threads : CycleSaveCount(t)
  \/ \E t \in Threads : CycleSavePrev(t)
  \/ \E t \in Threads : CycleSaveInsert(t)
  \/ \E w \in Workers : CollectDataFinish(w)
  \/ \E w \in Workers : StoreFetch(w)
  \/ CollectNowFinish
  \/ \E w \in Workers : TimerCleanup(w)
  \/ \E w \in Workers : TimerCleanupReset(w)
  \/ Tick

Spec == Init /\ [][Next]_vars


\* the scheduler under the scheduling the threads can count on: a join with
\* a timeout returns; a worker that polls (time.sleep(1), the test of the
\* flag) or that is between two jobs of run_pending goes on.  A job itself
\* (a request to the provider, a statement of the database) may take for
\* ever.
Polling(w) == WorkerLoop(w) \/ TimerCollect(w) \/ TimerCleanup(w)

FairSpec ==
  /\ Spec
  /\ WF_vars(StopReturn)
  /\ \A w \in Workers : WF_vars(Polling(w))

\* a started scheduler whose worker runs its timer jobs while another thread
\* calls force_immediate_collection
RaceNext ==
  \/ \E mho \in BOOLEAN : Start(mho)
  \/ \E w \in Workers : WorkerLoop(w)
  \/ \E w \in Workers : TimerCollect(w)
  \/ ForceImmediate
  \/ \E t \in Threads : FetchOne(t)
  \/ \E t \in Threads : SaveFailed(t)
  \/ \E t \in Threads : StoreError(t)
  \/ \E t \in Threads : CycleSaveCount(t)
  \/ \E t \in Threads : CycleSavePrev(t)
  \/ \E t \in Threads : CycleSaveInsert(t)
  \/ \E t \in Threads : CollectDataFinish(t)
  \/ \E t \in Threads : StoreFetch(t)
  \/ \E w \in Workers : TimerCleanup(w)
  \/ \E w \in Workers : TimerCleanupReset(w)
  \/ Tick

RaceSpec == Init /\ [][RaceNext]_vars

\* a started scheduler and collect_now over a store whose save_candle may
\* raise
FaultNext ==
  \/ \E mho \in BOOLEAN : Start(mho)
  \/ \E w \in Workers : WorkerLoop(w)
  \/ \E w \in Workers : TimerCollect(w)
  \/ \E force \in BOOLEAN : CollectNow(force)
  \/ \E t \in Threads : FetchOne(t)
  \/ \E t \in Threads : SaveFailed(t)
  \/ \E t \in Threads : StoreError(t)
  \/ \E t \in Threads : CycleSaveCount(t)
  \/ \E t \in Threads : CycleSavePrev(t)
  \/ \E t \in Threads : CycleSaveInsert(t)
  \/ \E t \in Threads, kind \in Kinds : CycleSaveRaises(t, kind)
  \/ \E w \in Workers : StoreExcept(w)
  \/ \E w \in Workers : CollectDataFinish(w)
  \/ \E w \in Workers : StoreFetch(w)
  \/ CollectNowFinish
  \/ \E w \in Workers : TimerCleanup(w)
  \/ \E w \in Workers : TimerCleanupReset(w)
  \/ Tick

FaultSpec == Init /\ [][FaultNext]_vars

\* what a worker does from its start to its exit, with jobs that may fail
WorkerStep(w) ==
  \/ WorkerLoop(w)
  \/ TimerCollect(w)
  \/ FetchOne(w)
  \/ SaveFailed(w)
  \/ StoreError(w)
  \/ CycleSaveCount(w)
  \/ CycleSavePrev(w)
  \/ CycleSaveInsert(w)
  \/ \E kind \in Kinds : CycleSaveRaises(w, kind)
  \/ StoreExcept(w)
  \/ CollectDataFinish(w)
  \/ StoreFetch(w)
  \/ TimerCleanup(w)
  \/ \E kind \in Kinds : TimerCleanupRaises(w, kind)
  \/ TimerCleanupReset(w)

\* the scheduler started and stopped from the control thread while the jobs
\* of its workers may fail
FailureNext ==
  \/ \E mho \in BOOLEAN : Start(mho)
  \/ StopBegin
  \/ StopReturn
  \/ \E w \in Workers : WorkerStep(w)
  \/ Tick

\* every statement of a worker ends: the provider and the database answer
\* or raise, and the thread is scheduled again
FailureSpec ==
  /\ Init /\ [][FailureNext]_vars
  /\ WF_vars(StopReturn)
  /\ \A w \in Workers : WF_vars(WorkerStep(w))

\* the tracked symbol list under add_symbol and remove_symbol
SymbolNext ==
  \/ \E entered \in Entered, valid \in BOOLEAN : add_symbol(entered, valid)
  \/ \E entered \in Entered : remove_symbol(entered)

SymbolSpec == Init /\ [][SymbolNext]_vars

\* the symbol the user removes, and adds again, while a collection runs
Edited == {"TCS.NS"}

\* collect_now on its thread while the control thread edits the symbol list
CollectNext ==
  \/ \E force \in BOOLEAN : CollectNow(force)
  \/ FetchOne("collect")
  \/ SaveFailed("collect")
  \/ CycleSaveCount("collect")
  \/ CycleSavePrev("collect")
  \/ CycleSaveInsert("collect")
  \/ CollectNowFinish
  \/ \E entered \in Edited, valid \in BOOLEAN : add_symbol(entered, valid)
  \/ \E entered \in Edited : remove_symbol(entered)
  \/ Tick

CollectSpec == Init /\ [][CollectNext]_vars

\* backfill_data on its thread beside collect_now on its own
BackfillNext ==
  \/ \E sym \in SymbolUniverse, days \in BackfillDays : backfill_data(sym, days)
  \/ BackfillSaveCount
  \/ BackfillSavePrev
  \/ BackfillSaveInsert
  \/ BackfillReturn
  \/ \E force \in BOOLEAN : CollectNow(force)
  \/ FetchOne("collect")
  \/ SaveFailed("collect")
  \/ CycleSaveCount("collect")
  \/ CycleSavePrev("collect")
  \/ CycleSaveInsert("collect")
  \/ CollectNowFinish
  \/ Tick

BackfillSpec == Init /\ [][BackfillNext]_vars


\* the scheduler over a database file that runs of the weeks before have
\* written: the first candle of a day 31 days before the first cleanup, and
\* the first candle of the day after it
OlderDays == {-30, -29}
OlderRuns ==
  { LET candle == StockCandle("INFY.NS", [day |-> d, minute |-> MARKET_OPEN_TIME],
                              CHOOSE sh \in Shapes : sh.volume = 250000)
        avg_price == AvgPrice(candle)
        money_flow == MoneyFlow(avg_price, ScaledVolume(candle))
    IN  Row(candle, CalculateNetMF(candle, avg_price, money_flow, 0, None)) : d \in OlderDays }

CleanupInit == Construct(EarlierRun \cup OlderRuns)

CleanupSpec == CleanupInit /\ [][Next]_vars

\* the market calendar alone: the status panel queries it as the clock moves
\* through a week, around the opening and the closing minute of each day
MaxDay == 7
CalendarMinutes == {0, MARKET_OPEN_TIME - 1, MARKET_OPEN_TIME, MARKET_OPEN_TIME + 1,
                    MARKET_CLOSE_TIME - 1, MARKET_CLOSE_TIME, MARKET_CLOSE_TIME + 1,
                    MinutesPerDay - 1}
CalendarInstants == { [day |-> d, minute |-> m] : d \in 0..MaxDay, m \in CalendarMinutes }

\* get_status(): the market status of this instant
GetStatus ==
  /\ ret' = [op |-> "get_market_status", status |-> get_market_status(now)]
  /\ UNCHANGED << db, frame, calls, purges, is_running, market_hours_only, fetch_count,
                  error_count, last_fetch_time, scheduler_thread, symbols, jobs, task, main,
                  lifecycle, cycles, now >>

CalendarTick ==
  /\ \E dt \in CalendarInstants : isoformat(dt) > isoformat(now) /\ now' = dt
  /\ UNCHANGED << db, frame, ret, calls, purges, is_running, market_hours_only, fetch_count,
                  error_count, last_fetch_time, scheduler_thread, symbols, jobs, task, main,
                  lifecycle, cycles >>

CalendarNext ==
  \/ GetStatus
  \/ CalendarTick

CalendarSpec == Init /\ [][CalendarNext]_vars

\* ------------------------------------------------------------------ claims
\* the stored row of a candle's (symbol, timestamp)
StoredRows(rows, candle) ==
  { r \in rows : r.symbol = candle.symbol /\ r.timestamp = isoformat(candle.timestamp) }

StoredRow(candle) == CHOOSE r \in StoredRows(db, candle) : TRUE

Saved == ret.op = "save_candle" /\ ret.success

UniqueSamples ==
  \A r1 \in db : \A r2 \in db :
    (r1.symbol = r2.symbol /\ r1.timestamp = r2.timestamp) => r1 = r2

\* C1 (as stated): at most one stored sample per (symbol, timestamp), and of
\* two concurrent inserts of the same pair exactly one returns true: the one
\* that returns second returns true exactly when the first returned false.
C1_ExactlyOneReturnsTrue ==
  /\ UniqueSamples
  /\ (ret.op = "save_candle" /\ ret.rival # "none") => (ret.success <=> ret.rival = "false")

\* C1 (amended): at most one stored sample per (symbol, timestamp) in every
\* state, and an insert that ran concurrently with an insert of the same pair
\* that returned true returns false as long as that row is still stored.
C1_AtMostOneSample ==
  /\ UniqueSamples
  /\ (ret.op = "save_candle" /\ ret.rival = "stored") => ~ret.success

C1_Witness ==
  /\ ret.op = "save_candle" /\ ret.rival = "stored" /\ ~ret.success
  /\ Cardinality(StoredRows(db, ret.candle)) = 1

\* C2: the INSERT of a (symbol, timestamp) that is stored returns false and
\* changes no row; the INSERT of one that is not stored returns true and adds
\* exactly the row of the candle.
C2_IdempotentInsert ==
  [][\A t \in Threads :
       (frame[t].pc = "insert" /\ frame'[t].pc = "idle") =>
         LET c == frame[t].candle
         IN  IF StoredRows(db, c) # {}
             THEN ret'.success = FALSE /\ db' = db
             ELSE /\ ret'.success = TRUE
                  /\ db \subseteq db'
                  /\ Cardinality(db') = Cardinality(db) + 1
                  /\ \E r \in db' \ db :
                       /\ r.symbol = c.symbol /\ r.timestamp = isoformat(c.timestamp)
                       /\ r.open_price = c.open_price /\ r.close_price = c.close_price
                       /\ r.high_price = c.high_price /\ r.low_price = c.low_price
                       /\ r.created_at = c.created_at]_vars

C2_Witness ==
  /\ ret.op = "save_candle" /\ ~ret.success
  /\ \E r \in StoredRows(db, ret.candle) :
       /\ r.open_price # ret.candle.open_price
       /\ r.created_at # ret.candle.created_at
       /\ r.volume # ScaledVolume(ret.candle)

\* the rows a serial run of save_candle over the rows of seq, in that order,
\* stores for one symbol and day
RECURSIVE SerialRows(_)
SerialRows(seq) ==
  IF seq = << >> THEN {}
  ELSE LET before == SerialRows(SubSeq(seq, 1, Len(seq) - 1))
           r == seq[Len(seq)]
           last == CHOOSE x \in before : \A y \in before : y.timestamp <= x.timestamp
           net_mf == IF before = {} THEN FirstOfDayNetMF(r, r.money_flow)
                     ELSE NextNetMF(r.avg_price, r.money_flow,
                                    [avg_price |-> last.avg_price, net_mf |-> last.net_mf])
       IN  before \cup {[r EXCEPT !.net_mf = net_mf]}

Orders(rows) ==
  { seq \in [1..Cardinality(rows) -> rows] : \A i, j \in DOMAIN seq : seq[i] = seq[j] => i = j }

\* C3: inserts of one symbol and day are serialized: as long as nothing was
\* purged, the NMF values stored for a symbol and day are those some serial
\* order of the same inserts produces.
C3_Serializable ==
  purges = 0 =>
    \A sym \in SymbolUniverse : \A dt \in Instants :
      LET rows == DayRows(db, sym, date(dt))
      IN  \E seq \in Orders(rows) : SerialRows(seq) = rows

\* C4: an insert whose day count found no row of its symbol and date stores
\* -money_flow if close < open and +money_flow otherwise.
C4_FirstOfDaySign ==
  (Saved /\ ret.day_entry_count = 0) =>
    LET r == StoredRow(ret.candle)
    IN  r.net_mf = IF ret.candle.close_price < ret.candle.open_price
                   THEN 0 - r.money_flow ELSE r.money_flow

C4_Witness ==
  /\ Saved /\ ret.day_entry_count = 0
  /\ ret.candle.close_price = ret.candle.open_price
  /\ StoredRow(ret.candle).net_mf > 0
  /\ \E r \in db : r.net_mf < 0 /\
       (r.symbol # ret.candle.symbol \/ DATE(r.timestamp) # date(ret.candle.timestamp))

\* C5: an insert that read a previous same-day row stores money_flow +
\* prev_nmf when its avg_price is above prev_avg and -money_flow + prev_nmf
\* when it is below.
C5_Accumulation ==
  (Saved /\ ret.result # None) =>
    LET r == StoredRow(ret.candle)
    IN  /\ r.avg_price > ret.result.avg_price => r.net_mf = r.money_flow + ret.result.net_mf
        /\ r.avg_price < ret.result.avg_price => r.net_mf = ret.result.net_mf - r.money_flow

C5_Witness ==
  /\ Saved /\ ret.result # None
  /\ StoredRow(ret.candle).avg_price < ret.result.avg_price
  /\ StoredRow(ret.candle).money_flow > 0
  /\ ret.result.net_mf > 0

\* C6: on a tie of avg_price with the previous same-day row the insert
\* stores prev_nmf + money_flow if prev_nmf >= 0 and prev_nmf - money_flow if
\* prev_nmf < 0.
C6_TieInheritsSign ==
  (Saved /\ ret.result # None /\ StoredRow(ret.candle).avg_price = ret.result.avg_price) =>
    LET r == StoredRow(ret.candle)
    IN  r.net_mf = IF ret.result.net_mf >= 0 THEN ret.result.net_mf + r.money_flow
                   ELSE ret.result.net_mf - r.money_flow

C6_Witness ==
  /\ Saved /\ ret.result # None
  /\ StoredRow(ret.candle).avg_price = ret.result.avg_price
  /\ ret.result.net_mf = 0
  /\ StoredRow(ret.candle).money_flow > 0

\* C7: the first-of-day rule is taken exactly when no row of the candle's
\* symbol and date is stored, whatever is stored for other dates, and the
\* NMF it stores is +/- money_flow.
C7_DayBoundaryReset ==
  [][\A t \in Threads :
       /\ (frame[t].pc = "idle" /\ frame'[t].pc # "idle") =>
            LET c == frame'[t].candle
            IN  (frame'[t].pc = "insert") <=>
                  ~(\E r \in db : r.symbol = c.symbol /\ DATE(r.timestamp) = date(c.timestamp))
       /\ (frame[t].pc = "insert" /\ frame[t].day_entry_count = 0 /\ frame'[t].pc = "idle") =>
            \A r \in db' \ db : r.net_mf = r.money_flow \/ r.net_mf = 0 - r.money_flow]_vars

C7_Witness ==
  /\ Saved /\ ret.day_entry_count = 0
  /\ StoredRow(ret.candle).net_mf = 0 - StoredRow(ret.candle).money_flow
  /\ StoredRow(ret.candle).money_flow > 0
  /\ \E r \in db : /\ r.symbol = ret.candle.symbol
                   /\ DATE(r.timestamp) = date(ret.candle.timestamp) - 1
                   /\ r.net_mf > 0

\* C8: the previous row an insert of a candle that is not stored yet reads is
\* the stored row of its symbol and date with the greatest timestamp earlier
\* than the candle's own.
C8_PreviousIsEarlier ==
  [][\A t \in Threads :
       (frame[t].pc = "prev" /\ frame'[t].pc = "insert") =>
         LET c == frame[t].candle
             earlier == { r \in DayRows(db, c.symbol, date(c.timestamp)) :
                            r.timestamp < isoformat(c.timestamp) }
         IN  (StoredRows(db, c) = {} /\ frame'[t].result # None) =>
               \E r \in earlier :
                 /\ \A y \in earlier : y.timestamp <= r.timestamp
                 /\ frame'[t].result = [avg_price |-> r.avg_price, net_mf |-> r.net_mf]]_vars

\* ---------------------------------------------------------------- C9
\* C9: the scheduler is created stopped, and after any sequence of start()
\* and stop() calls is_running is the effect of the last call: true after a
\* start(), false after a stop() and before any call, so that a start()
\* after a stop() runs the scheduler again.
C9_LastCallWins ==
  /\ lifecycle \in {"start", "already_running"} => is_running
  /\ lifecycle \in {"none", "stop"} => ~is_running

\* a start() after a stop(): the scheduler runs again, with a new worker
\* beside the one the stop() did not wait out
C9_Witness ==
  /\ lifecycle = "start"
  /\ is_running
  /\ main = "idle"
  /\ scheduler_thread = "worker2"
  /\ Alive("worker2")

\* --------------------------------------------------------------- C10
\* the gate of a timer-driven cycle or of an unforced collect_now is passed
UnforcedGate == (\E w \in Workers : TimerCollect(w)) \/ CollectNow(FALSE)

\* C10: an unforced collection whose gate finds market_hours_only set and
\* the market closed is a pure skip: no thread starts fetching, the stored
\* rows, fetch_count, error_count and last_fetch_time stay as they are, and
\* collect_now returns an empty list of outcomes.
C10_ClosedMarketSkip ==
  [][ (market_hours_only /\ ~get_market_status(now).is_open /\ UnforcedGate)
      => /\ UNCHANGED << db, fetch_count, error_count, last_fetch_time, cycles, frame >>
         /\ \A t \in Threads : task'[t].pc \in {"fetch", "save", "finish"} => task'[t] = task[t]
         /\ CollectNow(FALSE) => ret' = [op |-> "collect_now", skipped |-> TRUE, results |-> << >>]
    ]_vars

\* a collect_now on a closed market returned an empty list, after the timer
\* had rescheduled its skipped cycle, and nothing has been collected
C10_Witness ==
  /\ ret = [op |-> "collect_now", skipped |-> TRUE, results |-> << >>]
  /\ market_hours_only
  /\ ~get_market_status(now).is_open
  /\ \E j \in jobs : j.fn = "_collect_data" /\ j.next_run > isoformat(now)
  /\ fetch_count = 0 /\ last_fetch_time = None /\ db = EarlierRun

\* --------------------------------------------------------------- C11
\* the fetches of a list of outcomes that failed
RECURSIVE Failures(_)
Failures(results) ==
  IF results = << >> THEN 0
  ELSE (IF Head(results).success THEN 0 ELSE 1) + Failures(Tail(results))

\* C11: a timer-driven collection that is not skipped ends having raised
\* error_count by the number k of its failed fetches, and its closing steps
\* set last_fetch_time to the time of the step and raise fetch_count by
\* exactly 1, whatever k is.
C11_TimerCycleStatistics ==
  [][ \A w \in Workers :
        /\ CollectDataFinish(w) =>
              /\ task[w].counted = Failures(task[w].results)
              /\ error_count' = error_count
              /\ last_fetch_time' = now
        /\ StoreFetch(w) =>
              /\ error_count' = error_count
              /\ fetch_count' = fetch_count + 1
    ]_vars

\* a timer-driven collection all of whose fetches failed has ended
C11_Witness ==
  /\ ret = [op |-> "_collect_data", skipped |-> FALSE]
  /\ Len(symbols) = 2
  /\ error_count = Len(symbols)
  /\ fetch_count = 1
  /\ last_fetch_time = now

\* --------------------------------------------------------------- C12
\* the outcomes of a list that are about sym
OutcomesOf(results, sym) == { k \in 1..Len(results) : results[k].symbol = sym }

\* success with a candle, or failure with a message
WellFormed(r) ==
  IF r.success THEN r.data # None /\ r.data.symbol = r.symbol
  ELSE r.data = None /\ r.error_message # NoMessage

\* the symbols no add_symbol or remove_symbol of CollectSpec names: tracked
\* from the beginning to the end of every collection
Untouched == { sym \in SymbolUniverse : \A entered \in Edited : strip(upper(entered)) # sym }

\* C12: a collect_now that is not skipped returns exactly one outcome, a
\* success with a candle or a failure with a message, for every symbol
\* that is tracked while it runs, and has stored the candle of every
\* success.
C12_OneOutcomePerTrackedSymbol ==
  [][ CollectNowFinish =>
        /\ \A sym \in Untouched :
              Contains(symbols, sym) => Cardinality(OutcomesOf(task["collect"].results, sym)) = 1
        /\ \A k \in 1..Len(task["collect"].results) :
              /\ WellFormed(task["collect"].results[k])
              /\ task["collect"].results[k].success
                   => StoredRows(db, task["collect"].results[k].data) # {}
    ]_vars

\* --------------------------------------------------------------- C13
\* C13: a collect_now that is not skipped keeps the statistics as a timer
\* cycle over the same outcomes does: its own increments of error_count are
\* the number of failed outcomes, fetch_count rises by 1 and last_fetch_time
\* is the instant of the collection.
C13_CollectNowStatistics ==
  [][ CollectNowFinish =>
        /\ task["collect"].counted = Failures(task["collect"].results)
        /\ fetch_count' = fetch_count + 1
        /\ last_fetch_time' = now ]_vars

\* --------------------------------------------------------------- C14
\* the calendar of the clock, read off the day number: day 0 is a Friday, so
\* days 1 and 2 of every week are the Saturday and the Sunday
Weekend(d) == d % 7 \in {1, 2}

\* C14: the market status of an instant is open exactly when the instant is
\* on a Monday to Friday and its time of day is from 09:15 to 15:30, both
\* included; on a Saturday or a Sunday it is closed at every time of day.
C14_OpenExactlyInSession ==
  ret.op = "get_market_status" =>
    LET at == ret.status.current_time
    IN  /\ ret.status.is_open <=>
              (~Weekend(at.day) /\ 9 * 60 + 15 <= at.minute /\ at.minute <= 15 * 60 + 30)
        /\ Weekend(at.day) => ~ret.status.is_open

\* a query in the closing minute of a Monday finds the market open
C14_Witness ==
  /\ ret.op = "get_market_status"
  /\ ret.status.current_time = [day |-> 3, minute |-> 15 * 60 + 30]
  /\ ret.status.is_open

\* --------------------------------------------------------------- C15
\* C15: the next open of an instant is at 09:15 of a Monday to Friday; its
\* date is the first trading date after today when today's session is over
\* or today is no trading day, and today otherwise; it is at most 3 days on.
C15_NextOpen ==
  ret.op = "get_market_status" =>
    LET at == ret.status.current_time
        next_open == ret.status.next_open
    IN  /\ next_open.minute = 9 * 60 + 15
        /\ ~Weekend(next_open.day)
        /\ IF at.minute > 15 * 60 + 30 \/ Weekend(at.day)
           THEN /\ next_open.day > at.day
                /\ \A d \in (at.day + 1)..(next_open.day - 1) : Weekend(d)
           ELSE next_open.day = at.day
        /\ next_open.day - at.day <= 3

\* a query after the close of a Friday: the next open is the Monday's
C15_Witness ==
  /\ ret.op = "get_market_status"
  /\ ret.status.current_time = [day |-> 7, minute |-> 15 * 60 + 31]
  /\ ret.status.next_open = [day |-> 10, minute |-> 9 * 60 + 15]

\* --------------------------------------------------------------- C16
\* the statistics and settings a cleanup has no business with
CleanupFrame ==
  /\ fetch_count' = fetch_count
  /\ last_fetch_time' = last_fetch_time
  /\ is_running' = is_running
  /\ symbols' = symbols

\* no stored row is more than 30 days older than the instant the job was due
WithinRetention(rows, job) == \A r \in rows : r.timestamp >= job.next_run - 30 * 24 * 60

\* C16: a firing of the daily cleanup job, in its purge and in its reset,
\* leaves fetch_count, last_fetch_time, is_running and the symbol list as
\* they are; after the purge, and when the firing ends, no stored row is
\* older than 30 days before the firing; it ends with error_count = 0.
C16_DailyCleanup ==
  [][ \A w \in Workers :
        /\ TimerCleanup(w) =>
              /\ CleanupFrame
              /\ WithinRetention(db', Head(task[w].batch))
        /\ TimerCleanupReset(w) =>
              /\ CleanupFrame
              /\ WithinRetention(db', task[w].job)
              /\ error_count' = 0 ]_vars

\* a cleanup has ended after a cycle in which every fetch failed: the old
\* row is gone, the newer ones are there, the errors are forgotten
C16_Witness ==
  /\ \A w \in Workers : task[w].pc \notin {"run", "reset", "fetch", "save", "store_error",
                                            "finish", "store_fetch"}
  /\ fetch_count = 1
  /\ Cardinality(db) = 2
  /\ \E r \in db : r.timestamp < 0
  /\ error_count = 0
  /\ last_fetch_time = [day |-> 0, minute |-> 600]

\* --------------------------------------------------------------- C17
\* C17: a purge with cutoff c removes the stored rows whose timestamp is
\* before c, of every symbol, and no other; every row at or after c stays as
\* it is; the purge returns the number of rows it removed.
C17_PurgeExact ==
  [][ \A c \in Cutoffs : StorePurge(c) =>
        /\ db' \subseteq db
        /\ \A r \in db : (r.timestamp < c) <=> (r \notin db')
        /\ ret'.op = "cleanup_old_data"
        /\ ret'.deleted_count = Cardinality({ r \in db : r.timestamp < c }) ]_vars

\* a purge has removed the one row before its cutoff and kept the row of
\* the cutoff instant itself
C17_Witness ==
  /\ ret.op = "cleanup_old_data"
  /\ ret.deleted_count = 1
  /\ \E r \in db : r.timestamp = ret.cutoff

\* --------------------------------------------------------------- C18
\* the samples of a backfill whose (symbol, timestamp) was not stored when
\* the call began
NewSamples(candles, before) ==
  { k \in 1..Len(candles) : StoredRows(before, candles[k]) = {} }

BackfillCall == \E sym \in SymbolUniverse, days \in BackfillDays : backfill_data(sym, days)

Named(entered) ==
  CASE entered \in {"TCS.NS", "tcs.ns"} -> "TCS.NS"
    [] entered = " infy.ns " -> "INFY.NS"
    [] entered \in {"WIPRO.NS", "wipro.ns"} -> "WIPRO.NS"

Tracked(sym) == \E k \in 1..Len(symbols) : symbols[k] = sym

\* C19: add_symbol of a symbol that is tracked, whatever the case it is
\* entered in, returns true, does not ask the source and leaves the list as
\* it is; of an untracked symbol the source does not validate it returns
\* false and leaves the list as it is; of an untracked symbol the source
\* validates it returns true and puts the symbol, in upper case, at the end.
C19_AddSymbol ==
  [][ \A entered \in Entered, valid \in BOOLEAN : add_symbol(entered, valid) =>
        IF Tracked(Named(entered))
        THEN ret'.result /\ ~ret'.validated /\ symbols' = symbols
        ELSE IF ~valid
        THEN ~ret'.result /\ symbols' = symbols
        ELSE ret'.result /\ symbols' = Append(symbols, Named(entered)) ]_vars

\* a symbol entered in lower case was validated and stands, in upper case,
\* at the end of the list
C19_Witness ==
  /\ ret.op = "add_symbol"
  /\ ret.entered = "wipro.ns"
  /\ ret.result
  /\ symbols = << "TCS.NS", "INFY.NS", "WIPRO.NS" >>

\* --------------------------------------------------------------- C20
\* C20: remove_symbol of a tracked symbol, whatever the case it is entered
\* in, returns true and takes the symbol out of the list, the others keeping
\* their order; of an untracked symbol it returns false and leaves the list
\* as it is; the stored rows stay as they are in both cases.
C20_RemoveSymbol ==
  [][ \A entered \in Entered : remove_symbol(entered) =>
        /\ IF Tracked(Named(entered))
           THEN /\ ret'.result
                /\ symbols' = SelectSeq(symbols, LAMBDA x : x # Named(entered))
           ELSE ~ret'.result /\ symbols' = symbols
        /\ db' = db ]_vars

\* the first symbol of three was removed, entered in lower case: the other
\* two are in their order, and the rows of the removed symbol are stored
C20_Witness ==
  /\ ret.op = "remove_symbol"
  /\ ret.entered = "tcs.ns"
  /\ ret.result
  /\ symbols = << "INFY.NS", "WIPRO.NS" >>
  /\ \E r \in db : r.symbol = "TCS.NS"

\* --------------------------------------------------------------- C21
NoDuplicate(list) == \A j \in 1..Len(list) : \A k \in 1..Len(list) : list[j] = list[k] => j = k

\* the upper-case spellings among the strings of this model
UpperCase == {"TCS.NS", "INFY.NS", "WIPRO.NS"}

Position(list, x) == CHOOSE k \in 1..Len(list) : list[k] = x

\* C21: the tracked list holds no symbol twice and only upper-case symbols;
\* a step of add_symbol or remove_symbol keeps the order of the symbols that
\* stay and puts a symbol it brings in at the end; the list of the fetcher
\* and the list of the configuration are the same.
C21_TrackedSymbolSet ==
  [][ /\ NoDuplicate(symbols) /\ NoDuplicate(symbols')
      /\ \A k \in 1..Len(symbols') : symbols'[k] \in UpperCase
      /\ \A x \in UpperCase : \A y \in UpperCase :
            (Tracked(x) /\ Tracked(y) /\ Contains(symbols', x) /\ Contains(symbols', y)
               /\ Position(symbols, x) < Position(symbols, y))
            => Position(symbols', x) < Position(symbols', y)
      /\ \A x \in UpperCase :
            (~Tracked(x) /\ Contains(symbols', x)) => symbols'[Len(symbols')] = x
      /\ STOCK_SYMBOLS = symbols /\ STOCK_SYMBOLS' = symbols' ]_vars

\* a default symbol was removed and added again, a new one in between:
\* the list is in the order of the latest insertions
C21_Witness ==
  /\ symbols = << "INFY.NS", "WIPRO.NS", "TCS.NS" >>
  /\ ret.op = "add_symbol"
  /\ ret.result

\* --------------------------------------------------------------- C22
\* stop() returns: at once when there is no live worker to wait for, or
\* when its join ends
StopReturns == (StopBegin /\ main' = "idle") \/ StopReturn

\* C22: every stop() that has begun returns, and it returns with
\* is_running false and no job left in the schedule, whether or not the
\* worker has exited.
C22_StopTerminates ==
  /\ [][ StopReturns => (~is_running' /\ jobs' = {}) ]_vars
  /\ (main = "joining") ~> (main = "idle")

\* stop() has returned while the worker it waited for is inside a fetch
C22_Witness ==
  /\ lifecycle = "stop"
  /\ main = "idle"
  /\ ~is_running
  /\ jobs = {}
  /\ scheduler_thread # NoThread
  /\ task[scheduler_thread].pc = "fetch"

\* --------------------------------------------------------------- C23
\* C23: no increment of a counter is lost, whatever runs beside it: every
\* self.fetch_count += 1 and every self.error_count += 1 that completes
\* leaves its counter one above the value the counter had just before, so
\* that the counters end as after some serial order of the collections.
C23_NoLostUpdate ==
  [][ \A t \in Threads :
        /\ StoreFetch(t) => fetch_count' = fetch_count + 1
        /\ StoreError(t) => error_count' = error_count + 1
    ]_vars

\* --------------------------------------------------------------- C24
\* the row of a symbol with the greatest timestamp
LatestRow(rows, symbol) ==
  CHOOSE r \in RowsOf(rows, symbol) : \A q \in RowsOf(rows, symbol) : q.timestamp <= r.timestamp

\* C24: latest(symbol) never fails; it returns absent when no row of the
\* symbol is stored, and otherwise the stored sample of the symbol with the
\* greatest timestamp, with its derived fields avg_price, money_flow and
\* net_mf.
C24_LatestSample ==
  [][ \A symbol \in SymbolUniverse : get_latest_candle(symbol) =>
        /\ ret'.raised = "none"
        /\ IF RowsOf(db, symbol) = {} THEN ret'.value = None
           ELSE LET r == LatestRow(db, symbol)
                IN  /\ ret'.value # None
                    /\ ret'.value.symbol = symbol
                    /\ ret'.value.timestamp = fromisoformat(r.timestamp)
                    /\ ret'.value.close_price = r.close_price
                    /\ ret'.value.avg_price = r.avg_price
                    /\ ret'.value.money_flow = r.money_flow
                    /\ ret'.value.net_mf = r.net_mf
    ]_vars

\* --------------------------------------------------------------- C25
\* C25: range(symbol, limit) never fails and returns samples of that symbol
\* only, in strictly decreasing order of timestamp, as many as the smaller
\* of limit and the number of rows stored for the symbol, none of them older
\* than a stored row of the symbol it leaves out; the empty list when the
\* symbol has no row.
C25_RecentSamples ==
  [][ \A symbol \in SymbolUniverse, limit \in Limits : get_candles_for_symbol(symbol, limit) =>
        LET v == ret'.value
            n == Cardinality(RowsOf(db, symbol))
        IN  /\ ret'.raised = "none"
            /\ Len(v) = IF limit < n THEN limit ELSE n
            /\ \A k \in 1..Len(v) :
                  /\ v[k].symbol = symbol
                  /\ \E r \in RowsOf(db, symbol) : fromisoformat(r.timestamp) = v[k].timestamp
            /\ \A k \in 1..(Len(v) - 1) : isoformat(v[k].timestamp) > isoformat(v[k + 1].timestamp)
            /\ \A r \in RowsOf(db, symbol) :
                  (\A k \in 1..Len(v) : v[k].timestamp # fromisoformat(r.timestamp))
                    => \A k \in 1..Len(v) : isoformat(v[k].timestamp) > r.timestamp
    ]_vars

\* --------------------------------------------------------------- C26
\* the step by which a collection of _collect_data hands control back
CollectionEnds(t) == Counts(t) /\ task'[t].fn # "_collect_data"

\* C26: an exception of whatever kind raised inside save_candle for one
\* symbol does not end the collection: the collection ends by its statistics
\* (last_fetch_time set, fetch_count raised by 1) with the candle of every
\* other successful outcome stored.
C26_InsertFaultNonFatal ==
  [][ \A w \in Workers : CollectionEnds(w) =>
        /\ task[w].pc = "store_fetch"
        /\ fetch_count' = fetch_count + 1
        /\ last_fetch_time' # None
        /\ \A k \in 1..Len(task[w].results) :
              (task[w].results[k].success /\ k \notin task[w].faulted)
                => StoredRows(db', task[w].results[k].data) # {}
    ]_vars

\* --------------------------------------------------------------- C27
\* C27: a start() while the scheduler is running changes nothing, whichever
\* market_hours_only it is passed: the flag, the armed jobs, the worker
\* threads and what they are doing, the counters and the store stay as
\* they are.
C27_StartWhileRunning ==
  [][ \A mho \in BOOLEAN : (is_running /\ Start(mho)) =>
        UNCHANGED << is_running, market_hours_only, jobs, scheduler_thread, task,
                     fetch_count, error_count, last_fetch_time, symbols, db >>
    ]_vars

\* the last call was a start() that found the scheduler running, after a
\* collection of its one worker: the two jobs of the first start() are the
\* only ones
C27_Witness ==
  /\ lifecycle = "already_running"
  /\ is_running
  /\ fetch_count = 1
  /\ Cardinality(jobs) = 2
  /\ Cardinality({ w \in Workers : Alive(w) }) = 1

\* --------------------------------------------------------------- C28
\* a step of a collect_now(force=True): its gate, a fetch, a step of a
\* save_candle, its return
ForcedStep ==
  \/ CollectNow(TRUE)
  \/ /\ task["collect"].fn = "collect_now"
     /\ task["collect"].force
     /\ \/ FetchOne("collect")
        \/ SaveFailed("collect")
        \/ CycleSaveCount("collect")
        \/ CycleSavePrev("collect")
        \/ CycleSaveInsert("collect")
        \/ CollectNowFinish

\* C28: collect_now(force=True) is never skipped, whether the scheduler
\* runs or not, whether the market is open or not and whatever
\* market_hours_only is: the call goes on to fetch and returns the outcomes
\* it fetched; no step of it changes is_running, market_hours_only, the
\* armed jobs or the worker thread.
C28_ForcedCollectNow ==
  [][ /\ CollectNow(TRUE) => task'["collect"].pc = "fetch"
      /\ ForcedStep => UNCHANGED << is_running, market_hours_only, jobs, scheduler_thread >>
      /\ (CollectNowFinish /\ task["collect"].force)
           => ret' = [op |-> "collect_now", skipped |-> FALSE,
                      results |-> task["collect"].results]
    ]_vars

\* a collect_now(force=True) of a scheduler that was never started has
\* fetched every symbol and stored a candle, and is about to return, on a
\* closed market with market_hours_only set
C28_Witness ==
  /\ lifecycle = "none" /\ ~is_running /\ jobs = {}
  /\ market_hours_only /\ ~get_market_status(now).is_open
  /\ task["collect"].fn = "collect_now" /\ task["collect"].force
  /\ task["collect"].pc = "finish"
  /\ Len(task["collect"].results) = Len(symbols)
  /\ \E k \in 1..Len(symbols) :
        /\ task["collect"].results[k].success
        /\ StoredRows(db, task["collect"].results[k].data) # {}

\* --------------------------------------------------------------- C29
\* the worker is in the except clause of a failed collection
Failing(w) == task[w].pc = "store_except"

\* the worker is in its loop: at the test of the flag with run_pending
\* ahead, or in run_pending between two jobs
InLoop(w) == task[w].pc \in {"loop", "run"}

\* the job the worker is running
JobInHand(w) == IF task[w].pc = "run" THEN Head(task[w].batch) ELSE task[w].job

SameJob(j, k) == j.fn = k.fn /\ j.owner = k.owner

\* C29: no failure of a timer job ends the worker: a worker exits only from
\* the test of the flag, with is_running false; a failed cleanup leaves it
\* in its loop with the job armed for the next day; and a worker in the
\* except clause of a failed collection is back in its loop later, with the
\* job armed again if the scheduler still runs.
C29_WorkerSurvivesFailures ==
  /\ [][ \A w \in Workers :
          /\ (Alive(w) /\ ~Alive(w)') => (task[w].pc = "loop" /\ ~is_running)
          /\ (\E kind \in Kinds : TimerCleanupRaises(w, kind))
               => (Alive(w)' /\ task'[w].pc \in {"reset", "loop", "run"})
          /\ (StoreExcept(w) \/ TimerCleanupReset(w)
                 \/ (\E kind \in Kinds : TimerCleanupRaises(w, kind) /\ ~Caught(kind)))
               => /\ InLoop(w)'
                  /\ \A j \in jobs : SameJob(j, JobInHand(w)) =>
                        \E k \in jobs' : SameJob(k, j) /\ k.next_run > isoformat(now)
      ]_vars
  /\ \A w \in Workers : Failing(w) ~> InLoop(w)

\* the cleanup job runs (its purge is done, the reset is next) after a
\* collection of the same scheduler that ended in its except clause: one
\* error counted, no collection completed, no collection under way
C29_Witness ==
  /\ is_running
  /\ \E w \in Workers : task[w].pc = "reset" /\ w = scheduler_thread
  /\ error_count = 1 /\ fetch_count = 0 /\ cycles = 1
  /\ \A u \in Workers : task[u].fn # "_collect_data"

\* --------------------------------------------------------------- C30
\* C30: fetch_count never decreases and error_count is never negative,
\* whatever is called in whatever order; error_count decreases only in the
\* step of the daily cleanup job that sets it to 0.
C30_CountersMonotonic ==
  /\ [](error_count >= 0 /\ fetch_count >= 0)
  /\ [][ /\ fetch_count' >= fetch_count
         /\ error_count' < error_count
              => (error_count' = 0 /\ \E w \in Workers : TimerCleanupReset(w))
      ]_vars

\* --------------------------------------------------------------- C31
\* |n|
Abs(n) == IF n < 0 THEN 0 - n ELSE n

\* k is an integer nearest to the quotient n / d
NearestTo(k, n, d) == 2 * Abs(k * d - n) <= d

\* C31: the row a save_candle has stored carries floor(volume / 1000) as its
\* volume, (high + low) / 2 rounded to the nearest integer (a half goes up)
\* as its avg_price, and avg_price * volume / 1000 rounded to the nearest
\* integer as its money_flow.
C31_RoundedToNearest ==
  Saved =>
    LET r == StoredRow(ret.candle)
        c == ret.candle
    IN  /\ r.volume * 1000 <= c.volume /\ c.volume < (r.volume + 1) * 1000
        /\ 2 * r.avg_price \in {c.high_price + c.low_price, c.high_price + c.low_price + 1}
        /\ NearestTo(r.money_flow, r.avg_price * r.volume, 1000)

\* --------------------------------------------------------------- C32
\* the columns of a row that repeat the candle
SamePayload(r, c) ==
  /\ r.open_price = c.open_price /\ r.high_price = c.high_price
  /\ r.low_price = c.low_price /\ r.close_price = c.close_price
  /\ r.volume = c.volume /\ r.created_at = c.created_at

\* C32: a save_candle that returns true has stored, for the candle's
\* (symbol, timestamp), a row with the candle's open, high, low, close,
\* volume and created_at, and no later step changes these columns of a row
\* that stays stored.
C32_StoredSupersetOfCandle ==
  [][ /\ \A t \in Threads :
           (frame[t].pc = "insert" /\ frame'[t].pc = "idle" /\ ret'.success) =>
             \E r \in StoredRows(db', frame[t].candle) : SamePayload(r, frame[t].candle)
      /\ \A r \in db : \A q \in db' :
           (q.symbol = r.symbol /\ q.timestamp = r.timestamp) => SamePayload(q, r)
    ]_vars

\* --------------------------------------------------------------- C33
\* C33: at most one worker is in the polling loop at any time, whatever
\* start() and stop() calls were made, also after a stop() whose join timed
\* out and a start() that followed it.
C33_AtMostOneWorker ==
  \A w \in Workers : \A u \in Workers : (InLoop(w) /\ InLoop(u)) => w = u

\* --------------------------------------------------------------- C34
\* stop() has returned and no start() has been called since
Stopped == lifecycle = "stop" /\ main = "idle"

\* C34: between the return of a stop() and the next start() no step of a
\* worker changes the stored rows, fetch_count, error_count or
\* last_fetch_time, also when the worker was inside a job when stop() was
\* called.
C34_NoTimerEffectAfterStop ==
  [][ (Stopped /\ \E w \in Workers : WorkerStep(w))
        => UNCHANGED << db, fetch_count, error_count, last_fetch_time >>
    ]_vars

\* --------------------------------------------------------------- C35
\* the armed jobs that call fn
Armed(fn) == { j \in jobs : j.fn = fn }

\* C35: whenever no start() or stop() is under way, a running scheduler has
\* exactly one collection job and exactly one cleanup job armed and a
\* stopped one has none, whatever calls were made before.
C35_TimersMatchLifecycle ==
  main = "idle" =>
    IF is_running
    THEN /\ Cardinality(Armed("_collect_data")) = 1
         /\ Cardinality(Armed("_daily_cleanup")) = 1
         /\ Cardinality(jobs) = 2
    ELSE jobs = {}

\* the scheduler runs after a second start(): the worker of the first one
\* is still there, and the jobs are the two the second start() armed
C35_Witness ==
  /\ main = "idle" /\ is_running
  /\ scheduler_thread = "worker2" /\ Alive("worker1")
  /\ \A j \in jobs : j.owner = "worker2"
  /\ Cardinality(jobs) = 2

\* --------------------------------------------------------------- C36
\* the gate of _collect_data is passed: by a timer job or by
\* force_immediate_collection
CollectDataGate == ForceImmediate \/ \E w \in Workers : TimerCollect(w)

\* C36: a force_immediate_collection that finds market_hours_only set and
\* the market closed does what a timer cycle does then: it returns at the
\* gate, no thread starts fetching, and the stored rows, fetch_count,
\* error_count and last_fetch_time stay as they are.
C36_ForceImmediateIsGated ==
  [][ (market_hours_only /\ ~get_market_status(now).is_open /\ CollectDataGate)
        => /\ UNCHANGED << db, frame, fetch_count, error_count, last_fetch_time >>
           /\ ret' = [op |-> "_collect_data", skipped |-> TRUE]
           /\ \A t \in Threads : task'[t].pc = "fetch" => task'[t] = task[t]
    ]_vars

\* force_immediate_collection has returned at its gate: the scheduler was
\* never started, so no timer job has run; the market is closed and nothing
\* has been fetched or counted
C36_Witness ==
  /\ ret = [op |-> "_collect_data", skipped |-> TRUE]
  /\ lifecycle = "none" /\ jobs = {}
  /\ market_hours_only /\ ~get_market_status(now).is_open
  /\ task["collect"].pc = "idle"
  /\ fetch_count = 0 /\ error_count = 0 /\ last_fetch_time = None /\ db = EarlierRun

\* --------------------------------------------------------------- C37
\* the loop of fetch_all_symbols ends
FetchLoopEnds(t) == task[t].pc = "fetch" /\ task'[t].pc # "fetch"

\* C37: when the loop over the symbol list ends, every symbol that was
\* tracked all through the collection has been attempted exactly once,
\* whatever add_symbol and remove_symbol did to other symbols meanwhile.
C37_EachTrackedSymbolOnce ==
  [][ \A t \in Threads : FetchLoopEnds(t) =>
        \A sym \in Untouched :
          Cardinality(OutcomesOf(task[t].results, sym)) = 1
    ]_vars


\* --------------------------------------------------------------- C38
\* C38: a market status of a closed market has a next open strictly later
\* than its instant and no next close; a status of an open market has the
\* close of its own day, not earlier than its instant, as next close and the
\* open of its own day, not later than its instant, as next open.
C38_NextOpenAndClose ==
  ret.op = "get_market_status" =>
    LET st == ret.status
        at == st.current_time
    IN  IF st.is_open
        THEN /\ st.next_close = [day |-> at.day, minute |-> MARKET_CLOSE_TIME]
             /\ isoformat(st.next_close) >= isoformat(at)
             /\ st.next_open = [day |-> at.day, minute |-> MARKET_OPEN_TIME]
             /\ isoformat(st.next_open) <= isoformat(at)
        ELSE /\ isoformat(st.next_open) > isoformat(at)
             /\ st.next_close = None

\* a query in the closing minute of a trading day: the market is still open
\* and both instants are this day's
C38_Witness ==
  /\ ret.op = "get_market_status"
  /\ ret.status.is_open
  /\ ret.status.current_time.minute = MARKET_CLOSE_TIME
  /\ ret.status.next_open.day = ret.status.current_time.day
  /\ ret.status.next_close = ret.status.current_time


\* --------------------------------------------------------------- C39
\* the scheduler is stopped and the worker w has not exited
StopPending(w) == ~is_running /\ Alive(w)

\* w tests the flag of its loop and finds it cleared
ObservesStop(w) == task[w].pc = "loop" /\ ~is_running /\ task'[w] # task[w]

\* C39: a worker that is alive while the scheduler is stopped exits unless
\* the scheduler is started again; it exits at the test of its loop only,
\* the job it is in carried to its end, and the step in which it finds the
\* flag cleared is its exit, after which it takes up no job.
C39_WorkerExitsAfterStop ==
  /\ \A w \in Workers : StopPending(w) ~> (is_running \/ ~Alive(w))
  /\ [][ \A w \in Workers :
           /\ (Alive(w) /\ task'[w].pc = "dead") => ObservesStop(w)
           /\ ObservesStop(w) => task'[w] = Task("dead")
           /\ (~Alive(w) /\ task'[w] # task[w]) => (is_running' /\ ~is_running)
       ]_vars

\* stop() has returned at the timeout of its join, the worker inside a
\* collection; the worker has carried the collection to its end and stands
\* at the test of its loop
C39_Witness ==
  \E w \in Workers :
    /\ lifecycle = "stop" /\ main = "idle" /\ ~is_running
    /\ scheduler_thread = w
    /\ task[w].pc = "loop"
    /\ last_fetch_time = now
    /\ fetch_count = 1


\* --------------------------------------------------------------- C40
CollectionJobs(js) == { j \in js : j.fn = "_collect_data" }

\* a start() that takes effect
Starts == ~is_running /\ is_running'

\* w is in a collection its timer job has begun: past the gate and not yet
\* back in run_pending
TimerCycle(w) == Timer(w) /\ Counts(w)

\* the collection job has been due for the running scheduler, the market is
\* open and the run has a collection left
CollectionDue ==
  /\ is_running
  /\ get_market_status(now).is_open
  /\ cycles < MaxCycles
  /\ \E j \in CollectionJobs(jobs) : j.next_run <= isoformat(now)

\* C40: a start() that takes effect writes nothing a collection writes and
\* leaves one collection job, due one interval after the instant of this
\* start(), whatever start() and stop() went before; a worker takes up
\* jobs that are due only, and none while the clock stands at the instant
\* the first start() cannot be earlier than; and a collection job that is
\* due while the market is open has a worker begin a collection, unless the
\* scheduler is stopped or the market closes first.
C40_TimerArmedFromStart ==
  /\ [][ /\ Starts =>
              /\ CollectionJobs(jobs') # {}
              /\ \A j \in CollectionJobs(jobs') :
                   j.next_run = isoformat(now) + FETCH_INTERVAL_MINUTES
              /\ UNCHANGED << db, fetch_count, error_count, last_fetch_time, cycles >>
              /\ \A w \in Workers : task'[w] # task[w] => task'[w] = Task("loop")
         /\ \A w \in Workers :
              (task[w].pc = "loop" /\ task'[w].pc = "run") =>
                \A k \in 1..Len(task'[w].batch) : task'[w].batch[k].next_run <= isoformat(now)
         /\ now' = [day |-> 0, minute |-> CLEANUP_TIME] =>
              cycles' = 0 /\ \A w \in Workers : task'[w].pc \in {"dead", "loop"}
       ]_vars
  /\ CollectionDue ~>
       \/ \E w \in Workers : TimerCycle(w)
       \/ ~is_running
       \/ ~get_market_status(now).is_open

\* the first worker is in the collection its timer has begun an interval
\* after the first start(); a stop() and a start() have followed at this
\* instant, and the collection job of the second worker is due one interval
\* from now
C40_Witness ==
  /\ is_running /\ lifecycle = "start" /\ main = "idle"
  /\ scheduler_thread = "worker2"
  /\ TimerCycle("worker1")
  /\ get_market_status(now).is_open
  /\ CollectionJobs(jobs) =
       { [fn |-> "_collect_data", owner |-> "worker2",
          next_run |-> isoformat(now) + FETCH_INTERVAL_MINUTES] }

====
